---- MODULE Spec2Model ----
(***************************************************************************)
(* Verification model of the flint storage engine: the Database facade of  *)
(* src/src/storage/mod.rs over the catalog (catalog.rs), the per-table and *)
(* per-index files (files.rs), the slotted block (base.rs) and the B+-tree *)
(* primary index (index/btree.rs, index/page.rs).                          *)
(***************************************************************************)
EXTENDS Integers, Sequences, FiniteSets, TLC

(***************************************************************************)
(* Bounds of the model (inputs the operations are called with).            *)
(***************************************************************************)
\* largest primary-key value a row carries
MaxInt == 2

\* number of blocks insert_row calls may allocate in the table files
MaxInserts == 2

\* number of I/O failures and file corruptions in one behaviour
MaxEvents == 1

\* number of secondary indexes one table carries
MaxIndexes == 1

\* number of append_tuple calls on one block
MaxAppends == 4

\* number of segments allocate_segment hands out in one table file
MaxSegments == 2

\* largest block id free_block is called with
MaxFreeId == 2

\* number of even keys inserted into one B+-tree
MaxKeys == 254

\* number of keys of one bucket inserted in a series into one hash index
MaxHashKeys == 254

\* number of values in a row given to the row codec
MaxRowLen == 2

\* number of threads calling into one index
MaxThreads == 2

\* number of keys the threads insert and look up
MaxLatchKeys == 2

\* number of allocate_page calls on one index file
MaxAllocs == 7

\* number of entries appended to one WAL file
MaxWal == 2

\* the table names the operations are called with
Names == {"a", "b"}

(***************************************************************************)
(* Program constants.                                                      *)
(***************************************************************************)
BLOCK_SIZE == 65536
BLOCKS_PER_UNCOMPRESSED_SEGMENT == 31
BLOCK_HEADER_SIZE == 16
SLOT_ENTRY_SIZE == 4
MAX_ENTRIES == 252
U16 == 2 ^ 16

(***************************************************************************)
(* Generic helpers.                                                        *)
(***************************************************************************)
Put(f, k, v) == [x \in (DOMAIN f) \cup {k} |-> IF x = k THEN v ELSE f[x]]

Empty == [x \in {} |-> 0]

Min(S) == CHOOSE x \in S : \A y \in S : x <= y

\* all orders in which the elements of a finite set can be enumerated
RECURSIVE Orders(_)
Orders(S) ==
  IF S = {} THEN {<<>>}
  ELSE UNION {{<<x>> \o o : o \in Orders(S \ {x})} : x \in S}

(***************************************************************************)
(* Values, rows, schemas (types.rs).                                       *)
(***************************************************************************)
VNull == [kind |-> "Null", v |-> <<>>]

VInt(n) == [kind |-> "Int", v |-> <<n>>]

\* a string value; its text is abstracted to a list of character codes
VStr(cs) == [kind |-> "String", v |-> cs]

\* rows offered to insert_row: an integer or NULL followed by an integer, or
\* a row of one value
Rows == {<<VInt(k), VInt(1)>> : k \in 1..MaxInt} \cup {<<VNull, VInt(1)>>, <<VInt(1)>>}

Column(name, pk) == [name |-> name, data_type |-> "Int", is_primary_key |-> pk]

\* schemas offered to create_table: (id PRIMARY KEY, v) and (v, id PRIMARY KEY)
Schemas == { <<Column("id", TRUE), Column("v", FALSE)>>,
             <<Column("v", FALSE), Column("id", TRUE)>> }

\* the schema each table name is created with: "a" has its key in the first
\* column, every other table in the second
SchemaOf(name) == CHOOSE sc \in Schemas : (sc[1].is_primary_key <=> name = "a")

(***************************************************************************)
(* Row codec (types.rs): u32 length, then per value a tag and its payload. *)
(* Integers are written zig-zag, strings length-prefixed.                  *)
(***************************************************************************)
\* an encoder that writes the magnitude of an integer instead of its zig-zag
\* form
EncodeValue_plain(val) ==
  CASE val.kind = "Null"   -> <<0>>
    [] val.kind = "Int"    -> <<1, IF val.v[1] >= 0 THEN val.v[1] ELSE -val.v[1]>>
    [] val.kind = "String" -> <<3, Len(val.v)>> \o val.v
    [] val.kind = "Bool"   -> <<4>> \o val.v
    [] OTHER               -> <<5>> \o val.v

EncodeValue(val) ==
  CASE val.kind = "Null"   -> <<0>>
    [] val.kind = "Int"    -> <<1, IF val.v[1] >= 0 THEN 2 * val.v[1] ELSE -2 * val.v[1] - 1>>
    [] val.kind = "String" -> <<3, Len(val.v)>> \o val.v
    [] val.kind = "Bool"   -> <<4>> \o val.v
    [] OTHER               -> <<5>> \o val.v

RECURSIVE EncodeValues(_)
EncodeValues(vals) ==
  IF vals = <<>> THEN <<>> ELSE EncodeValue(Head(vals)) \o EncodeValues(Tail(vals))

EncodeRow(row) == <<Len(row)>> \o EncodeValues(row)

\* decode one value at position i of bytes: [ok, val, next]
DecodeValue(bytes, i) ==
  IF i > Len(bytes) THEN [ok |-> FALSE, val |-> VNull, next |-> i]
  ELSE LET tag == bytes[i] IN
    CASE tag = 0 -> [ok |-> TRUE, val |-> VNull, next |-> i + 1]
      [] tag = 1 ->
           IF i + 1 > Len(bytes) THEN [ok |-> FALSE, val |-> VNull, next |-> i]
           ELSE LET z == bytes[i + 1] IN
                [ok |-> TRUE,
                 val |-> VInt(IF z % 2 = 0 THEN z \div 2 ELSE -((z + 1) \div 2)),
                 next |-> i + 2]
      [] tag = 3 ->
           IF i + 1 > Len(bytes) \/ i + 1 + bytes[i + 1] > Len(bytes)
           THEN [ok |-> FALSE, val |-> VNull, next |-> i]
           ELSE [ok |-> TRUE,
                 val |-> VStr(SubSeq(bytes, i + 2, i + 1 + bytes[i + 1])),
                 next |-> i + 2 + bytes[i + 1]]
      [] tag = 4 ->
           IF i + 1 > Len(bytes) THEN [ok |-> FALSE, val |-> VNull, next |-> i]
           ELSE [ok |-> TRUE, val |-> [kind |-> "Bool", v |-> <<bytes[i + 1]>>], next |-> i + 2]
      [] tag = 5 ->
           IF i + 1 > Len(bytes) THEN [ok |-> FALSE, val |-> VNull, next |-> i]
           ELSE [ok |-> TRUE, val |-> VNull, next |-> i + 2]
      [] OTHER -> [ok |-> FALSE, val |-> VNull, next |-> i]

\* decode n values from position i of bytes: [ok, row, next], next the
\* position behind the last byte read
RECURSIVE DecodeValues(_, _, _)
DecodeValues(bytes, i, n) ==
  IF n = 0 THEN [ok |-> TRUE, row |-> <<>>, next |-> i]
  ELSE LET d == DecodeValue(bytes, i) IN
       IF ~d.ok THEN [ok |-> FALSE, row |-> <<>>, next |-> i]
       ELSE LET r == DecodeValues(bytes, d.next, n - 1) IN
            IF ~r.ok THEN r
            ELSE [ok |-> TRUE, row |-> <<d.val>> \o r.row, next |-> r.next]

DecodeRow(bytes) ==
  IF bytes = <<>> THEN [ok |-> FALSE, row |-> <<>>, next |-> 1]
  ELSE DecodeValues(bytes, 2, bytes[1])

(***************************************************************************)
(* Catalog persistence (catalog.rs).  A file is a sequence of symbols; a   *)
(* string is written as its code, a path as its length and components.     *)
(***************************************************************************)
Strings == <<"a", "b", "c", "d", "id", "v", "pk", "btree", "hash", "table", "index", "Int">>

Code(str) == CHOOSE i \in 1..Len(Strings) : Strings[i] = str

TablePath(name) == <<"table", name>>

IndexPath(name, idx) == <<"index", name, idx>>

RECURSIVE EncodeStrs(_)
EncodeStrs(strs) ==
  IF strs = <<>> THEN <<>> ELSE <<Code(Head(strs))>> \o EncodeStrs(Tail(strs))

EncodePath(path) == <<Len(path)>> \o EncodeStrs(path)

EncodeIndexMeta(im) ==
  <<Code(im.name), Code(im.index_type)>> \o EncodePath(im.file_path)
    \o <<im.root_page_segment, im.root_page_offset>>

RECURSIVE EncodeIndexMetas(_)
EncodeIndexMetas(ims) ==
  IF ims = <<>> THEN <<>> ELSE EncodeIndexMeta(Head(ims)) \o EncodeIndexMetas(Tail(ims))

EncodeColumn(col) ==
  <<Code(col.name), Code(col.data_type), IF col.is_primary_key THEN 1 ELSE 0>>

RECURSIVE EncodeColumns(_)
EncodeColumns(cols) ==
  IF cols = <<>> THEN <<>> ELSE EncodeColumn(Head(cols)) \o EncodeColumns(Tail(cols))

EncodeTableMeta(tm) ==
  <<Code(tm.name)>> \o EncodePath(tm.file_path)
    \o <<Len(tm.schema)>> \o EncodeColumns(tm.schema)
    \o <<tm.next_segment_id>>
    \o <<Len(tm.primary_index)>> \o EncodeIndexMetas(tm.primary_index)
    \o <<Len(tm.secondary_indexes)>> \o EncodeIndexMetas(tm.secondary_indexes)

\* the u64 rolling checksum, of which the model keeps the low 16 bits
ChecksumWidth == 2 ^ 16

RECURSIVE compute_checksum(_)
compute_checksum(data) ==
  IF data = <<>> THEN 0
  ELSE (compute_checksum(SubSeq(data, 1, Len(data) - 1)) * 31 + data[Len(data)])
         % ChecksumWidth

RECURSIVE EncodeTableMetas(_, _)
EncodeTableMetas(tabs, order) ==
  IF order = <<>> THEN <<>>
  ELSE EncodeTableMeta(tabs[Head(order)]) \o EncodeTableMetas(tabs, Tail(order))

\* Catalog::serialize, the tables written in the order the hash map yields them
serialize(tabs, order) ==
  LET table_bytes == EncodeTableMetas(tabs, order) IN
  <<1, Cardinality(DOMAIN tabs), compute_checksum(table_bytes)>> \o table_bytes

\* decoders take the bytes and a position and return [ok, val, next]
Fail(i) == [ok |-> FALSE, val |-> <<>>, next |-> i]

DecodeNum(bytes, i) ==
  IF i > Len(bytes) THEN Fail(i) ELSE [ok |-> TRUE, val |-> bytes[i], next |-> i + 1]

DecodeStr(bytes, i) ==
  IF i > Len(bytes) \/ bytes[i] \notin 1..Len(Strings) THEN Fail(i)
  ELSE [ok |-> TRUE, val |-> Strings[bytes[i]], next |-> i + 1]

DecodeBool(bytes, i) ==
  IF i > Len(bytes) \/ bytes[i] \notin {0, 1} THEN Fail(i)
  ELSE [ok |-> TRUE, val |-> (bytes[i] = 1), next |-> i + 1]

\* the kinds of the fields of a persisted struct, in declaration order
Fields(type) ==
  CASE type = "Column" -> <<"str", "str", "bool">>
    [] type = "IndexFileMetadata" -> <<"str", "str", "path", "num", "num">>
    [] type = "TableFileMetadata" ->
         <<"str", "path", "columns", "num", "option", "indexes">>

\* the kind of the items of a length-prefixed field
ItemKind(kind) ==
  CASE kind = "path" -> "str"
    [] kind = "columns" -> "Column"
    [] kind \in {"option", "indexes"} -> "IndexFileMetadata"

\* the struct whose decoded fields are vals
Struct(type, vals) ==
  CASE type = "Column" ->
         [name |-> vals[1], data_type |-> vals[2], is_primary_key |-> vals[3]]
    [] type = "IndexFileMetadata" ->
         [name |-> vals[1], index_type |-> vals[2], file_path |-> vals[3],
          root_page_segment |-> vals[4], root_page_offset |-> vals[5]]
    [] type = "TableFileMetadata" ->
         [name |-> vals[1], file_path |-> vals[2], schema |-> vals[3],
          next_segment_id |-> vals[4], primary_index |-> vals[5],
          secondary_indexes |-> vals[6]]

RECURSIVE DecodeField(_, _, _)
RECURSIVE DecodeFields(_, _, _)
RECURSIVE DecodeItems(_, _, _, _)

\* the fields of the given kinds, one after the other
DecodeFields(bytes, i, kinds) ==
  IF kinds = <<>> THEN [ok |-> TRUE, val |-> <<>>, next |-> i]
  ELSE LET d == DecodeField(bytes, i, Head(kinds)) IN
       IF ~d.ok THEN Fail(i)
       ELSE LET r == DecodeFields(bytes, d.next, Tail(kinds)) IN
            IF ~r.ok THEN Fail(i)
            ELSE [ok |-> TRUE, val |-> <<d.val>> \o r.val, next |-> r.next]

\* n items of one kind
DecodeItems(bytes, i, n, kind) ==
  IF n = 0 THEN [ok |-> TRUE, val |-> <<>>, next |-> i]
  ELSE LET d == DecodeField(bytes, i, kind) IN
       IF ~d.ok THEN Fail(i)
       ELSE LET r == DecodeItems(bytes, d.next, n - 1, kind) IN
            IF ~r.ok THEN Fail(i)
            ELSE [ok |-> TRUE, val |-> <<d.val>> \o r.val, next |-> r.next]

\* one field: a number, a string, a flag, a length-prefixed list (an Option
\* has length 0 or 1), or a struct
DecodeField(bytes, i, kind) ==
  CASE kind = "num" -> DecodeNum(bytes, i)
    [] kind = "str" -> DecodeStr(bytes, i)
    [] kind = "bool" -> DecodeBool(bytes, i)
    [] kind \in {"path", "columns", "option", "indexes"} ->
         LET n == DecodeNum(bytes, i) IN
         IF ~n.ok \/ (kind = "option" /\ n.val \notin {0, 1}) THEN Fail(i)
         ELSE DecodeItems(bytes, n.next, n.val, ItemKind(kind))
    [] OTHER ->
         LET r == DecodeFields(bytes, i, Fields(kind)) IN
         IF ~r.ok THEN Fail(i)
         ELSE [ok |-> TRUE, val |-> Struct(kind, r.val), next |-> r.next]

DecodeTableMeta(bytes, i) == DecodeField(bytes, i, "TableFileMetadata")

\* the table records of a catalog file: [ok, tables]
RECURSIVE DecodeTableMetas(_, _, _, _)
DecodeTableMetas(bytes, i, n, acc) ==
  IF n = 0 THEN [ok |-> TRUE, tables |-> acc]
  ELSE LET d == DecodeTableMeta(bytes, i) IN
       IF ~d.ok THEN [ok |-> FALSE, tables |-> Empty]
       ELSE DecodeTableMetas(bytes, d.next, n - 1, Put(acc, d.val.name, d.val))

\* Catalog::deserialize: header, checksum over the rest, then num_tables records
deserialize(data) ==
  IF Len(data) < 3 THEN [ok |-> FALSE, tables |-> Empty]
  ELSE LET table_bytes == SubSeq(data, 4, Len(data)) IN
       IF data[3] # compute_checksum(table_bytes)
       THEN [ok |-> FALSE, tables |-> Empty]
       ELSE DecodeTableMetas(table_bytes, 1, data[2], Empty)

(***************************************************************************)
(* Block: the slotted page (base.rs).  data maps the offset of each chunk  *)
(* written into the heap to its bytes; unwritten bytes are zero.           *)
(***************************************************************************)
SlotEntry(offset, length) == [offset |-> offset, length |-> length]

\* Block::new
NewBlock ==
  [slot_count |-> 0, free_start |-> BLOCK_HEADER_SIZE, free_end |-> BLOCK_SIZE,
   slots |-> <<>>, data |-> Empty]

\* a block read from a region of the file that was never written
ZeroBlock ==
  [slot_count |-> 0, free_start |-> 0, free_end |-> 0, slots |-> <<>>, data |-> Empty]

\* BlockHeader::free_space
free_space(block) == block.free_end - block.free_start

\* Block::slot: the directory entry, zero bytes where none was written
slot(block, slot_id) ==
  IF slot_id < Len(block.slots) THEN block.slots[slot_id + 1] ELSE SlotEntry(0, 0)

ByteAt(block, pos) ==
  LET hits == {o \in DOMAIN block.data : o <= pos /\ pos < o + Len(block.data[o])} IN
  IF hits = {} THEN 0
  ELSE LET o == Min(hits) IN block.data[o][pos - o + 1]

\* Block::read_tuple: [some, bytes]
read_tuple(block, slot_id) ==
  LET sl == slot(block, slot_id) IN
  IF sl.offset = 0 /\ sl.length = 0 THEN [some |-> FALSE, bytes |-> <<>>]
  ELSE [some |-> TRUE,
        bytes |-> [i \in 1..sl.length |-> ByteAt(block, sl.offset + i - 1)]]

\* an append_tuple that does not compare the free space with the space needed
append_tuple_unchecked(block, data) ==
  [some |-> TRUE, slot_id |-> block.slot_count,
   block |-> [slot_count |-> (block.slot_count + 1) % U16,
              free_start |-> block.free_start + SLOT_ENTRY_SIZE,
              free_end   |-> block.free_end - Len(data),
              slots |-> Append(block.slots,
                               SlotEntry((block.free_end - Len(data)) % U16,
                                         Len(data) % U16)),
              data  |-> block.data]]

\* Block::append_tuple: [some, slot_id, block]
append_tuple(block, data) ==
  LET slot_id == block.slot_count
      total_space == SLOT_ENTRY_SIZE + Len(data)
      new_free_end == block.free_end - Len(data)
  IN
  IF free_space(block) < total_space
  THEN [some |-> FALSE, slot_id |-> 0, block |-> block]
  ELSE [some |-> TRUE, slot_id |-> slot_id,
        block |-> [slot_count |-> (block.slot_count + 1) % U16,
                   free_start |-> block.free_start + SLOT_ENTRY_SIZE,
                   free_end   |-> new_free_end,
                   slots |-> [i \in 1..(slot_id + 1) |->
                                IF i = slot_id + 1
                                THEN SlotEntry(new_free_end % U16, Len(data) % U16)
                                ELSE slot(block, i - 1)],
                   data  |-> IF data = <<>> THEN block.data
                             ELSE Put(block.data, new_free_end, data)]]

(***************************************************************************)
(* Segment header and TableFile (base.rs, files.rs).  A table file on disk *)
(* is its segment-0 header (absent until written) and the blocks written.  *)
(* Positioned reads follow the Disk contract: a read that reaches past the *)
(* end of the file fails, a hole inside the file reads as zeros.           *)
(***************************************************************************)
SEGMENT_MAGIC == "FLNT"

\* Disk::read_at of one unit (block or page) of a file, given the units
\* written to it by number: [ok, data].  The read is of exact length: it
\* fails when it reaches past the end of the file, and a unit never written
\* that lies before a written one reads as zeros.
read_at(written, id, zeros) ==
  IF id \in DOMAIN written THEN [ok |-> TRUE, data |-> written[id]]
  ELSE IF \E u \in DOMAIN written : u > id THEN [ok |-> TRUE, data |-> zeros]
  ELSE [ok |-> FALSE, data |-> zeros]

\* Disk::write_at of one unit
write_at(written, id, data) == Put(written, id, data)

\* SegmentHeader::new; the bitmap is the set of bit positions that are set
NewSegmentHeader(segment_id) ==
  [magic |-> SEGMENT_MAGIC, segment_id |-> segment_id, blocks_used |-> 0,
   block_free_bitmap |-> 0..31]

is_block_free(hdr, block_id) == block_id \in hdr.block_free_bitmap

mark_block_used(hdr, block_id) ==
  [hdr EXCEPT !.block_free_bitmap = @ \ {block_id}, !.blocks_used = @ + 1]

NoTableFile == [exists |-> FALSE, hdr |-> <<>>, blocks |-> Empty]

\* Disk::open on a table file: created empty when it does not exist
OpenTableFile(f) == IF f.exists THEN f ELSE [NoTableFile EXCEPT !.exists = TRUE]

\* TableFile::read_segment_header of segment 0: [ok, hdr]
read_segment_header(f) ==
  IF f.hdr = <<>> \/ f.hdr[1].magic # SEGMENT_MAGIC
  THEN [ok |-> FALSE, hdr |-> NewSegmentHeader(0)]
  ELSE [ok |-> TRUE, hdr |-> f.hdr[1]]

\* TableFile::read_block of segment 0: [ok, block]
read_block(f, block_id) ==
  IF block_id >= BLOCKS_PER_UNCOMPRESSED_SEGMENT THEN [ok |-> FALSE, block |-> ZeroBlock]
  ELSE LET r == read_at(f.blocks, block_id, ZeroBlock) IN [ok |-> r.ok, block |-> r.data]

\* TableFile::write_block of segment 0
write_block(f, block_id, block) == [f EXCEPT !.blocks = write_at(@, block_id, block)]

\* TableFile::initialize_segment in the segment f holds
initialize_segment(f, segment_id) == [f EXCEPT !.hdr = <<NewSegmentHeader(segment_id)>>]

\* an allocate_block that starts its scan at block 0 in every segment
allocate_block_from_zero(f, segment_id) ==
  LET h == read_segment_header(f)
      free == {b \in 0..(BLOCKS_PER_UNCOMPRESSED_SEGMENT - 1) : is_block_free(h.hdr, b)}
  IN
  IF ~h.ok THEN [ok |-> FALSE, some |-> FALSE, block_id |-> 0, file |-> f]
  ELSE IF free = {} THEN [ok |-> TRUE, some |-> FALSE, block_id |-> 0, file |-> f]
  ELSE [ok |-> TRUE, some |-> TRUE, block_id |-> Min(free),
        file |-> [f EXCEPT !.hdr = <<mark_block_used(h.hdr, Min(free))>>]]

\* TableFile::allocate_block in the segment f holds: [ok, some, block_id, file]
allocate_block(f, segment_id) ==
  LET h == read_segment_header(f)
      start_block == IF segment_id = 0 THEN 1 ELSE 0
      free == {b \in start_block..(BLOCKS_PER_UNCOMPRESSED_SEGMENT - 1) :
                 is_block_free(h.hdr, b)}
  IN
  IF ~h.ok THEN [ok |-> FALSE, some |-> FALSE, block_id |-> 0, file |-> f]
  ELSE IF free = {} THEN [ok |-> TRUE, some |-> FALSE, block_id |-> 0, file |-> f]
  ELSE [ok |-> TRUE, some |-> TRUE, block_id |-> Min(free),
        file |-> [f EXCEPT !.hdr = <<mark_block_used(h.hdr, Min(free))>>]]

\* SegmentHeader::mark_block_free, called with block_id < 31
mark_block_free(hdr, block_id) ==
  [hdr EXCEPT !.block_free_bitmap = @ \cup {block_id},
              !.blocks_used = IF @ > 0 THEN @ - 1 ELSE @]

\* TableFile::free_block in the segment f holds: [ok, file]
free_block(f, segment_id, block_id) ==
  LET h == read_segment_header(f) IN
  IF ~h.ok THEN [ok |-> FALSE, file |-> f]
  ELSE [ok |-> TRUE, file |-> [f EXCEPT !.hdr = <<mark_block_free(h.hdr, block_id)>>]]

(***************************************************************************)
(* Index page and B+-tree (index/page.rs, index/btree.rs), IndexFile       *)
(* (files.rs).  An index file on disk is the set of pages written to it.   *)
(***************************************************************************)
TuplePointer(segment_id, block_id, slot_id) ==
  [segment_id |-> segment_id, block_id |-> block_id, slot_id |-> slot_id]

IndexEntry(key, ptr) ==
  [key |-> key, segment_id |-> ptr.segment_id, block_id |-> ptr.block_id,
   slot_id |-> ptr.slot_id]

as_tuple_pointer(e) == TuplePointer(e.segment_id, e.block_id, e.slot_id)

INDEX_MAGIC == "INDX"

\* IndexPage::new
NewIndexPage(is_leaf) ==
  [magic |-> INDEX_MAGIC, is_leaf |-> is_leaf, prev_page_id |-> 0, next_page_id |-> 0,
   entries |-> <<>>]

\* a page read from a hole of the file: all bytes zero
ZeroPage ==
  [magic |-> "", is_leaf |-> FALSE, prev_page_id |-> 0, next_page_id |-> 0,
   entries |-> <<>>]

num_keys(page) == Len(page.entries)

\* IndexPageHeader::validate
validate(page) == page.magic = INDEX_MAGIC

\* IndexPage::binary_search on a valid page: <<found, pos>>, positions from 0
RECURSIVE BinarySearchLoop(_, _, _, _)
BinarySearchLoop(page, key, left, right) ==
  IF left < right
  THEN LET mid == (left + right) \div 2
           mid_key == page.entries[mid + 1].key
       IN IF mid_key = key THEN <<TRUE, mid>>
          ELSE IF mid_key < key THEN BinarySearchLoop(page, key, mid + 1, right)
          ELSE BinarySearchLoop(page, key, left, mid)
  ELSE <<FALSE, left>>

binary_search(page, key) ==
  IF num_keys(page) = 0 THEN <<FALSE, 0>>
  ELSE BinarySearchLoop(page, key, 0, num_keys(page))

InsertSeq(seq, pos, e) ==
  SubSeq(seq, 1, pos) \o <<e>> \o SubSeq(seq, pos + 1, Len(seq))

\* an insert_at that puts the entry behind the last one whatever pos is
insert_at_end(page, pos, entry) ==
  IF num_keys(page) >= MAX_ENTRIES THEN [res |-> "full", page |-> page]
  ELSE IF pos > num_keys(page) THEN [res |-> "range", page |-> page]
  ELSE [res |-> "ok", page |-> [page EXCEPT !.entries = Append(@, entry)]]

\* IndexPage::insert_at: [res, page] with res "ok", "full" or "range"
insert_at(page, pos, entry) ==
  IF num_keys(page) >= MAX_ENTRIES THEN [res |-> "full", page |-> page]
  ELSE IF pos > num_keys(page) THEN [res |-> "range", page |-> page]
  ELSE [res |-> "ok", page |-> [page EXCEPT !.entries = InsertSeq(@, pos, entry)]]

\* IndexPage::set_entries: a fresh header, the sibling links cleared
set_entries(is_leaf, entries) == [NewIndexPage(is_leaf) EXCEPT !.entries = entries]

\* a split_page that cuts one entry behind the middle
split_page_late(page, insert_pos, new_entry) ==
  LET entries == InsertSeq(page.entries, insert_pos, new_entry)
      split_point == Len(entries) \div 2 + 1
      right_entries == SubSeq(entries, split_point + 1, Len(entries))
  IN [ok |-> TRUE, split |-> TRUE,
      page |-> [NewIndexPage(page.is_leaf) EXCEPT !.entries = SubSeq(entries, 1, split_point)],
      promoted_key |-> right_entries[1].key,
      right_page |-> [NewIndexPage(page.is_leaf) EXCEPT !.entries = right_entries]]

\* BTree::split_page: [ok, split, page, promoted_key, right_page]
split_page(page, insert_pos, new_entry) ==
  LET entries == InsertSeq(page.entries, insert_pos, new_entry)
      split_point == Len(entries) \div 2
      right_entries == SubSeq(entries, split_point + 1, Len(entries))
  IN [ok |-> TRUE, split |-> TRUE,
      page |-> set_entries(page.is_leaf, SubSeq(entries, 1, split_point)),
      promoted_key |-> right_entries[1].key,
      right_page |-> set_entries(page.is_leaf, right_entries)]

\* BTree::insert_into_page: [ok, split, page, promoted_key, right_page]
insert_into_page(page, key, tuple_ptr) ==
  IF ~validate(page)
  THEN [ok |-> FALSE, split |-> FALSE, page |-> page, promoted_key |-> 0,
        right_page |-> page]
  ELSE LET bs == binary_search(page, key)
           entry == IndexEntry(key, tuple_ptr)
       IN
       IF bs[1]
       THEN [ok |-> TRUE, split |-> FALSE,
             page |-> [page EXCEPT !.entries[bs[2] + 1] = entry],
             promoted_key |-> 0, right_page |-> page]
       ELSE LET ia == insert_at(page, bs[2], entry) IN
            IF ia.res = "ok"
            THEN [ok |-> TRUE, split |-> FALSE, page |-> ia.page, promoted_key |-> 0,
                  right_page |-> page]
            ELSE IF ia.res = "full" THEN split_page(page, bs[2], entry)
            ELSE [ok |-> FALSE, split |-> FALSE, page |-> page, promoted_key |-> 0,
                  right_page |-> page]

NoIndexFile == [exists |-> FALSE, pages |-> Empty]

\* Disk::open on an index file: created empty when it does not exist
OpenIndexFile(f) == IF f.exists THEN f ELSE [NoIndexFile EXCEPT !.exists = TRUE]

\* PageId::new(0, page_offset).raw()
PageId(page_offset) == page_offset % U16

\* IndexFile::allocate_page on the handle h: [page_id, handle]
allocate_page(h) ==
  [page_id |-> PageId(h.next_page_id), handle |-> [h EXCEPT !.next_page_id = @ + 1]]

\* IndexFile::read_page: [ok, page]
read_page(f, page_id) ==
  LET r == read_at(f.pages, page_id, ZeroPage) IN [ok |-> r.ok, page |-> r.data]

\* IndexFile::write_page
write_page(f, page_id, page) == [f EXCEPT !.pages = write_at(@, page_id, page)]

\* BTree::insert on the tree rooted at root_id; h is the file handle
\* [next_page_id]: result [ok, file, handle, split, promoted_key]
btree_insert(f, h, root_id, key, pointer) ==
  LET rd == read_page(f, root_id)
      failed == [ok |-> FALSE, file |-> f, handle |-> h, split |-> FALSE, promoted_key |-> 0]
  IN
  IF ~rd.ok THEN failed
  ELSE LET ins == insert_into_page(rd.page, key, pointer) IN
       IF ~ins.ok THEN failed
       ELSE IF ~ins.split
       THEN [ok |-> TRUE, file |-> write_page(f, root_id, ins.page), handle |-> h,
             split |-> FALSE, promoted_key |-> 0]
       ELSE [ok |-> TRUE,
             file |-> write_page(write_page(f, root_id, ins.page),
                                 PageId(h.next_page_id), ins.right_page),
             handle |-> [h EXCEPT !.next_page_id = @ + 1],
             split |-> TRUE, promoted_key |-> ins.promoted_key]

\* BTree::find_leaf_page: [ok, page]; an internal page leads to the child its
\* entry at the searched position names, the last entry past the end
RECURSIVE find_leaf_page(_, _, _, _)
find_leaf_page(f, page_id, key, fuel) ==
  LET rd == read_page(f, page_id) IN
  IF ~rd.ok \/ ~validate(rd.page) \/ fuel = 0 THEN [ok |-> FALSE, page |-> ZeroPage]
  ELSE IF rd.page.is_leaf THEN [ok |-> TRUE, page |-> rd.page]
  ELSE IF num_keys(rd.page) = 0 THEN [ok |-> FALSE, page |-> ZeroPage]
  ELSE LET pos == binary_search(rd.page, key)[2]
           idx == IF pos < num_keys(rd.page) THEN pos ELSE num_keys(rd.page) - 1
       IN find_leaf_page(f, rd.page.entries[idx + 1].segment_id, key, fuel - 1)

\* BTree::search: [ok, some, ptr]
btree_search(f, root_id, key) ==
  LET lf == find_leaf_page(f, root_id, key, 4) IN
  IF ~lf.ok THEN [ok |-> FALSE, some |-> FALSE, ptr |-> TuplePointer(0, 0, 0)]
  ELSE LET bs == binary_search(lf.page, key) IN
       IF ~bs[1] THEN [ok |-> TRUE, some |-> FALSE, ptr |-> TuplePointer(0, 0, 0)]
       ELSE [ok |-> TRUE, some |-> TRUE,
             ptr |-> as_tuple_pointer(lf.page.entries[bs[2] + 1])]

(***************************************************************************)
(* Write-ahead log (wal.rs).  The file is a sequence of bytes; a 32-bit    *)
(* word of the CRC is the set of its bit positions that are set.           *)
(***************************************************************************)
\* compute_crc32: the reflected CRC-32 with polynomial 0xEDB88320, as a set
\* of bit positions
compute_crc32(data) ==
  LET bits(n) == {i \in 0..15 : (n \div (2 ^ i)) % 2 = 1}
      poly == bits(33568) \cup {i + 16 : i \in bits(60856)}
      xor(a, b) == (a \ b) \cup (b \ a)
      RECURSIVE Shift(_, _)
      Shift(crc, n) ==
        IF n = 0 THEN crc
        ELSE Shift(IF 0 \in crc THEN xor({i - 1 : i \in crc \ {0}}, poly)
                   ELSE {i - 1 : i \in crc}, n - 1)
      RECURSIVE Fold(_, _)
      Fold(crc, i) ==
        IF i > Len(data) THEN crc
        ELSE LET next == Shift(xor(crc, bits(data[i])), 8) IN
             IF next \subseteq 0..31 THEN Fold(next, i + 1) ELSE {}
  IN (0..31) \ Fold(0..31, 1)

\* WalFile::append on w = [file, next_offset]: [offset, wal].  The header is
\* the repr(C) WalEntryHeader of 56 bytes, little-endian: magic at 0,
\* entry_type at 4, payload_len at 8, lsn at 16, crc32 at 24, _reserved from
\* 28.  Its padding bytes, at 5 to 7, 12 to 15 and 55, are indeterminate
\* where the struct is read as bytes: pad[1] fills them in the bytes the
\* CRC is computed over, pad[2] in the bytes written
wal_append(w, entry, pad) ==
  LET RECURSIVE le(_, _)
      le(n, k) == IF k = 0 THEN <<>> ELSE <<n % 256>> \o le(n \div 256, k - 1)
      header(crc, p) ==
        le(1464618823, 4) \o <<entry.entry_type, p, p, p>>
          \o le(Len(entry.payload), 4) \o <<p, p, p, p>> \o le(entry.lsn, 8)
          \o crc \o [i \in 1..27 |-> 0] \o <<p>>
      crc == compute_crc32(header(<<0, 0, 0, 0>>, pad[1]) \o entry.payload)
      crc_bytes == [j \in 1..4 |->
                      LET RECURSIVE Byte(_)
                          Byte(i) == IF i = 8 THEN 0
                                     ELSE (IF 8 * (j - 1) + i \in crc THEN 2 ^ i ELSE 0)
                                            + Byte(i + 1)
                      IN Byte(0)]
      buf == header(crc_bytes, pad[2]) \o entry.payload
  IN [offset |-> w.next_offset,
      wal |-> [file |-> SubSeq(w.file, 1, w.next_offset) \o buf,
               next_offset |-> w.next_offset + Len(buf)]]

\* WalFile::read_at: [ok, some, entry_type, payload]
wal_read_at(w, offset) ==
  LET header_size == 56
      none == [ok |-> TRUE, some |-> FALSE, entry_type |-> 0, payload |-> <<>>]
      err == [none EXCEPT !.ok = FALSE]
      header_buf == SubSeq(w.file, offset + 1, offset + header_size)
      payload_len == header_buf[9] + 256 * header_buf[10] + 65536 * header_buf[11]
      payload == SubSeq(w.file, offset + header_size + 1,
                        offset + header_size + payload_len)
      expected_crc == compute_crc32(header_buf \o payload)
      stored(j) == {8 * (j - 1) + i : i \in {i \in 0..7 :
                                              (header_buf[24 + j] \div (2 ^ i)) % 2 = 1}}
  IN IF offset + header_size > Len(w.file) THEN none
     ELSE IF SubSeq(header_buf, 1, 4) # <<71, 79, 76, 87>> THEN err
     ELSE IF header_buf[5] \notin 1..5 THEN err
     ELSE IF offset + header_size + payload_len > Len(w.file) THEN err
     ELSE IF stored(1) \cup stored(2) \cup stored(3) \cup stored(4) # expected_crc THEN err
     ELSE [ok |-> TRUE, some |-> TRUE, entry_type |-> header_buf[5], payload |-> payload]

(***************************************************************************)
(* State.                                                                  *)
(***************************************************************************)
VARIABLES
  tables,       \* Database.tables: name -> runtime TableMetadata
  table_files,  \* Database.table_files: name -> TableFile handle
  index_files,  \* Database.index_files: name -> IndexFile handle
  catalog,      \* Database.catalog: [active_segment, tables]
  catFile,      \* catalog_0.db and catalog_1.db
  catTmp,       \* catalog_0.tmp and catalog_1.tmp
  tblFile,      \* table_<name>.tbl
  idxFile,      \* index_<name>_pk.idx under the table's name, and
                \* index_<name>_v_ix.idx under "<name>_ix"
  pc,           \* position of the running create_table in save_catalog_to_disk
  frame,        \* locals of the running save_catalog_to_disk
  last,         \* history: the last call and what it returned
  created,      \* history: names whose create_table returned Ok
  okRows,       \* history: per table, the rows whose insert_row returned Ok
  events,       \* history: number of I/O failures and corruptions
  blk,          \* a Block of its own, fresh from Block::new, for append_tuple
  appended,     \* history: the append_tuple calls on blk and their results
  seg,          \* a TableFile of its own: [next_segment_id, file], file holding
                \* the segment allocate_segment handed out last
  segLast,      \* history: the last call on seg and what it returned
  tree,         \* a B+-tree of its own: [file, handle], its root leaf at page 0
  treeLog,      \* history: [inserted, last], the pointer last inserted per key
                \* and the last BTree::insert with what it returned
  hix,          \* a HashIndex of its own: [file, handle, index], index <<>>
                \* until HashIndex::new has made it
  hixLog,       \* history: [inserted, ok], the pointer last inserted per key
                \* and whether every HashIndex::insert returned Ok
  codec,        \* the last row encoded and decoded again: [row, bytes, decoded],
                \* row <<>> with no bytes before the first
  latch,        \* an index behind its Mutex and the threads calling into it:
                \* [holder, file, thr], holder 0 while the Mutex is free, thr
                \* per thread its [pc, op, key, page]
  pgs,          \* an IndexFile of its own: [handle, allocated], the handle of
                \* the open file and, as history, the page ids allocate_page
                \* has returned for the file since it was created
  tasks,        \* the threads of one Executor: per thread its [op, pc, held],
                \* op "none" and pc 0 between statements, else pc the place in
                \* Program(op) of the lock call it is at, held the <<lock, mode>>
                \* of the guards it has
  wlog          \* a WalFile of its own: [wal, appended, iter], wal the
                \* [file, next_offset] of the open file, appended the history
                \* of the entries given to append with the offsets returned,
                \* iter the WalIterator of iter_from(0), <<>> while there is
                \* none, else <<[current_offset, yielded, ended]>>

disk == <<catFile, catTmp, tblFile, idxFile>>

memory == <<tables, table_files, index_files, catalog>>

vars == <<tables, table_files, index_files, catalog, catFile, catTmp, tblFile, idxFile,
          pc, frame, last, created, okRows, events, blk, appended, seg, segLast,
          tree, treeLog, hix, hixLog, codec, latch, pgs, wlog, tasks>>

\* the Database, its files and the history of its calls
database == <<memory, disk, pc, frame, last, created, okRows, events>>

\* the components exercised on their own, which the Database never touches
parts == <<blk, appended, seg, segLast, tree, treeLog, hix, hixLog, codec, latch, pgs,
          wlog, tasks>>

NoFile == <<-1>>

NoFrame == [name |-> "", inactive_seg |-> 0, data |-> <<>>]

NoLast ==
  [op |-> "new", name |-> "", res |-> "ok", row |-> <<>>, key |-> <<>>, dup |-> FALSE,
   valid |-> FALSE, after |-> "", slot |-> 0, wasActive |-> FALSE,
   afterSave |-> FALSE, saved |-> Empty, preFile |-> NoTableFile]

\* Catalog::new
NewCatalog == [active_segment |-> 0, tables |-> Empty]

\* a directory without files, and Database::new over it
Init ==
  /\ tables = Empty
  /\ table_files = Empty
  /\ index_files = Empty
  /\ catalog = NewCatalog
  /\ catFile = [sg \in 0..1 |-> NoFile]
  /\ catTmp = [sg \in 0..1 |-> NoFile]
  /\ tblFile = [n \in Names |-> NoTableFile]
  /\ idxFile = [n \in Names \cup {"a_ix", "b_ix"} |-> NoIndexFile]
  /\ pc = "idle"
  /\ frame = NoFrame
  /\ last = NoLast
  /\ created = {}
  /\ okRows = [n \in Names |-> <<>>]
  /\ events = 0
  /\ blk = NewBlock
  /\ appended = <<>>
  /\ seg = [next_segment_id |-> 0, file |-> OpenTableFile(NoTableFile)]
  /\ segLast = [op |-> "open", ok |-> TRUE, some |-> FALSE, block_id |-> 0]
  /\ tree = [file |-> write_page(OpenIndexFile(NoIndexFile), PageId(0), NewIndexPage(TRUE)),
             handle |-> [next_page_id |-> 1]]
  /\ hix = [file |-> OpenIndexFile(NoIndexFile), handle |-> [next_page_id |-> 1],
            index |-> <<>>]
  /\ hixLog = [inserted |-> Empty, ok |-> TRUE]
  /\ codec = [row |-> <<>>, bytes |-> <<>>, decoded |-> DecodeRow(<<>>)]
  /\ latch = [holder |-> 0,
              file |-> write_page(OpenIndexFile(NoIndexFile), PageId(0), NewIndexPage(TRUE)),
              thr |-> [t \in 1..MaxThreads |->
                        [pc |-> "idle", op |-> "none", key |-> 0, page |-> ZeroPage]]]
  /\ pgs = [handle |-> [next_page_id |-> 0], allocated |-> <<>>]
  /\ wlog = [wal |-> [file |-> <<>>, next_offset |-> 0], appended |-> <<>>, iter |-> <<>>]
  /\ tasks = [t \in 1..MaxThreads |-> [op |-> "none", pc |-> 0, held |-> {}]]
  /\ treeLog = [inserted |-> Empty,
                last |-> [key |-> 0, ptr |-> TuplePointer(0, 0, 0), ok |-> FALSE,
                          split |-> FALSE, promoted_key |-> 0, existed |-> FALSE,
                          pre |-> Empty]]

(***************************************************************************)
(* Database::create_table up to the call of save_catalog_to_disk.          *)
(***************************************************************************)
\* the runtime IndexMetadata with its index instance
IndexMetadata(name, column, index_type, root_page_id) ==
  [name |-> name, column |-> column, index_type |-> index_type,
   index |-> [root_page_id |-> root_page_id]]

\* the points at which create_table can meet an I/O error before the save
Faults == {"none", "open_table", "allocate_segment", "open_index"}

Returned(op, name, res) == [NoLast EXCEPT !.op = op, !.name = name, !.res = res]

\* a contains_key that never finds the name
contains_key_never(name) == FALSE

\* self.tables.contains_key(&name)
contains_key(name) == name \in DOMAIN tables

create_table(name, schema, fault) ==
  /\ pc = "idle"
  /\ fault # "none" => events < MaxEvents
  /\ events' = IF fault # "none" /\ ~contains_key(name) THEN events + 1 ELSE events
  /\ IF contains_key(name)
     THEN /\ last' = [Returned("create_table", name, "err") EXCEPT
                        !.dup = (name \in DOMAIN tables)]
          /\ UNCHANGED <<memory, disk, pc, frame, created>>
     ELSE IF fault = "open_table"
     THEN /\ last' = Returned("create_table", name, "err")
          /\ UNCHANGED <<memory, disk, pc, frame, created>>
     ELSE IF fault = "allocate_segment"
     THEN /\ tblFile' = [tblFile EXCEPT ![name] = OpenTableFile(@)]
          /\ last' = Returned("create_table", name, "err")
          /\ UNCHANGED <<memory, catFile, catTmp, idxFile, pc, frame, created>>
     ELSE IF fault = "open_index"
     THEN /\ tblFile' = [tblFile EXCEPT ![name] = initialize_segment(OpenTableFile(@), 0)]
          /\ last' = Returned("create_table", name, "err")
          /\ UNCHANGED <<memory, catFile, catTmp, idxFile, pc, frame, created>>
     ELSE LET root_page_id == PageId(0)
              metadata ==
                [name |-> name, file_path |-> TablePath(name), schema |-> schema,
                 primary_index |-> <<IndexMetadata("pk", "", "btree", root_page_id)>>,
                 secondary_indexes |-> <<>>]
              table_meta ==
                [name |-> name, file_path |-> TablePath(name), schema |-> schema,
                 next_segment_id |-> 1,
                 primary_index |->
                   <<[name |-> "pk", index_type |-> "btree",
                      file_path |-> IndexPath(name, "pk"),
                      root_page_segment |-> root_page_id \div U16,
                      root_page_offset |-> root_page_id % U16]>>,
                 secondary_indexes |-> <<>>]
          IN
          /\ tblFile' = [tblFile EXCEPT ![name] = initialize_segment(OpenTableFile(@), 0)]
          /\ idxFile' = [idxFile EXCEPT ![name] = OpenIndexFile(@)]
          /\ tables' = Put(tables, name, metadata)
          /\ table_files' = Put(table_files, name, [next_segment_id |-> 1])
          /\ index_files' = Put(index_files, name, [next_page_id |-> 1])
          /\ catalog' = [catalog EXCEPT !.tables = Put(@, name, table_meta)]
          \* save_catalog_to_disk begins: the inactive slot and the bytes
          /\ \E order \in Orders(DOMAIN catalog'.tables) :
               frame' = [name |-> name,
                         inactive_seg |-> 1 - catalog.active_segment,
                         data |-> serialize(catalog'.tables, order)]
          /\ pc' = "save_create"
          /\ last' = [Returned("create_table", name, "running") EXCEPT
                        !.dup = (name \in DOMAIN tables)]
          /\ UNCHANGED <<catFile, catTmp, created>>
  /\ UNCHANGED <<okRows, parts>>

(***************************************************************************)
(* Database::save_catalog_to_disk, one action per file-system call; a      *)
(* failed call makes create_table return the error.                        *)
(***************************************************************************)
SaveFailed ==
  /\ events < MaxEvents
  /\ events' = events + 1
  /\ pc' = "idle"
  /\ frame' = NoFrame
  /\ last' = Returned("create_table", frame.name, "err")

\* fs::File::create(temp_path)
save_create_temp(fail) ==
  /\ pc = "save_create"
  /\ IF fail
     THEN SaveFailed /\ UNCHANGED catTmp
     ELSE /\ catTmp' = [catTmp EXCEPT ![frame.inactive_seg] = <<>>]
          /\ pc' = "save_write"
          /\ UNCHANGED <<frame, last, events>>
  /\ UNCHANGED <<memory, catFile, tblFile, idxFile, created, okRows, parts>>

\* temp_file.write_all(&data); a failed write leaves a prefix of the data
save_write(fail) ==
  /\ pc = "save_write"
  /\ IF fail
     THEN /\ SaveFailed
          /\ catTmp' = [catTmp EXCEPT ![frame.inactive_seg] =
                                         SubSeq(frame.data, 1, Len(frame.data) \div 2)]
     ELSE /\ catTmp' = [catTmp EXCEPT ![frame.inactive_seg] = frame.data]
          /\ pc' = "save_sync"
          /\ UNCHANGED <<frame, last, events>>
  /\ UNCHANGED <<memory, catFile, tblFile, idxFile, created, okRows, parts>>

\* temp_file.sync_all()
save_sync(fail) ==
  /\ pc = "save_sync"
  /\ IF fail
     THEN SaveFailed
     ELSE pc' = "save_rename" /\ UNCHANGED <<frame, last, events>>
  /\ UNCHANGED <<memory, disk, created, okRows, parts>>

\* a rename whose error is ignored: the save goes on to the flip
save_rename_unchecked(fail) ==
  /\ pc = "save_rename"
  /\ IF fail
     THEN UNCHANGED <<catFile, catTmp>>
     ELSE /\ catFile' = [catFile EXCEPT ![frame.inactive_seg] = catTmp[frame.inactive_seg]]
          /\ catTmp' = [catTmp EXCEPT ![frame.inactive_seg] = NoFile]
  /\ pc' = "save_flip"
  /\ UNCHANGED <<frame, last, events>>
  /\ UNCHANGED <<memory, tblFile, idxFile, created, okRows, parts>>

\* a rename onto the file of the active slot
save_rename_active(fail) ==
  /\ pc = "save_rename"
  /\ IF fail
     THEN SaveFailed /\ UNCHANGED <<catFile, catTmp>>
     ELSE /\ catFile' = [catFile EXCEPT ![catalog.active_segment] = catTmp[frame.inactive_seg]]
          /\ catTmp' = [catTmp EXCEPT ![frame.inactive_seg] = NoFile]
          /\ pc' = "save_flip"
          /\ UNCHANGED <<frame, last, events>>
  /\ UNCHANGED <<memory, tblFile, idxFile, created, okRows, parts>>

\* fs::rename(temp_path, final_path)
save_rename(fail) ==
  /\ pc = "save_rename"
  /\ IF fail
     THEN SaveFailed /\ UNCHANGED <<catFile, catTmp>>
     ELSE /\ catFile' = [catFile EXCEPT ![frame.inactive_seg] = catTmp[frame.inactive_seg]]
          /\ catTmp' = [catTmp EXCEPT ![frame.inactive_seg] = NoFile]
          /\ pc' = "save_flip"
          /\ UNCHANGED <<frame, last, events>>
  /\ UNCHANGED <<memory, tblFile, idxFile, created, okRows, parts>>

\* Catalog::flip_segment
flip_segment(cat) == [cat EXCEPT !.active_segment = 1 - @]

\* self.catalog.flip_segment(), and create_table returns Ok
save_flip ==
  /\ pc = "save_flip"
  /\ catalog' = flip_segment(catalog)
  /\ pc' = "idle"
  /\ frame' = NoFrame
  /\ last' = Returned("create_table", frame.name, "ok")
  /\ created' = created \cup {frame.name}
  /\ UNCHANGED <<tables, table_files, index_files, disk, okRows, parts,
                 events>>

(***************************************************************************)
(* Database::new over the existing directory: load_catalog_from_disk.      *)
(***************************************************************************)
\* the runtime TableMetadata rebuilt from a catalog record
RuntimeMeta(tm) ==
  LET pk_cols == {i \in 1..Len(tm.schema) : tm.schema[i].is_primary_key}
      pk_column == IF pk_cols # {} THEN tm.schema[Min(pk_cols)].name
                   ELSE IF tm.schema # <<>> THEN tm.schema[1].name ELSE ""
  IN [name |-> tm.name, file_path |-> tm.file_path, schema |-> tm.schema,
      primary_index |->
        IF tm.primary_index = <<>> THEN <<>>
        ELSE <<IndexMetadata(tm.primary_index[1].name, pk_column,
                             tm.primary_index[1].index_type,
                             tm.primary_index[1].root_page_segment * U16
                               + tm.primary_index[1].root_page_offset)>>,
      secondary_indexes |-> <<>>]

\* a load that rebuilds the table metadata and opens no table file
Loaded_nofiles(tabs) ==
  [catalog |-> [active_segment |-> 0, tables |-> tabs],
   tables |-> [n \in DOMAIN tabs |-> RuntimeMeta(tabs[n])],
   table_files |-> Empty,
   index_files |-> Empty]

\* the Database after the Ok branch: [catalog, tables, table_files, index_files]
Loaded(tabs) ==
  [catalog |-> [active_segment |-> 0, tables |-> tabs],
   tables |-> [n \in DOMAIN tabs |-> RuntimeMeta(tabs[n])],
   table_files |-> [n \in DOMAIN tabs |-> [next_segment_id |-> 0]],
   index_files |-> [n \in {m \in DOMAIN tabs : tabs[m].primary_index # <<>>} |->
                     [next_page_id |-> 0]]]

NotLoaded(cat) ==
  [catalog |-> cat, tables |-> Empty, table_files |-> Empty, index_files |-> Empty]

\* a load that gives up when the active file does not deserialize
load_catalog_no_fallback(cat, files) ==
  LET data == files[cat.active_segment] IN
  IF data = NoFile THEN NotLoaded(cat)
  ELSE LET d == deserialize(data) IN
       IF d.ok THEN Loaded(d.tables) ELSE NotLoaded(cat)

\* load_catalog_from_disk on a Database whose catalog is cat
RECURSIVE load_catalog_from_disk(_, _)
load_catalog_from_disk(cat, files) ==
  LET data == files[cat.active_segment] IN
  IF data = NoFile THEN NotLoaded(cat)
  ELSE LET d == deserialize(data) IN
       IF d.ok THEN Loaded(d.tables)
       ELSE LET fallback_data == files[1 - cat.active_segment] IN
            IF fallback_data = NoFile THEN NotLoaded(cat)
            ELSE LET fd == deserialize(fallback_data) IN
                 IF ~fd.ok THEN NotLoaded(cat)
                 ELSE load_catalog_from_disk(
                        flip_segment([active_segment |-> 0, tables |-> fd.tables]),
                        files)

\* the Database is dropped between two calls and a new one is constructed
\* over the directory
Restart ==
  LET db == load_catalog_from_disk(NewCatalog, catFile) IN
  /\ pc = "idle"
  /\ catalog' = db.catalog
  /\ tables' = db.tables
  /\ table_files' = db.table_files
  /\ index_files' = db.index_files
  /\ tblFile' = [n \in Names |->
                   IF n \in DOMAIN db.tables THEN OpenTableFile(tblFile[n]) ELSE tblFile[n]]
  /\ idxFile' = [n \in DOMAIN idxFile |->
                   IF n \in DOMAIN db.index_files THEN OpenIndexFile(idxFile[n])
                   ELSE idxFile[n]]
  /\ pc' = "idle"
  /\ frame' = NoFrame
  /\ last' = [NoLast EXCEPT !.op = "restart", !.after = last.op,
                            !.name = IF \/ last.op = "insert_row"
                                        \/ /\ last.op = "create_secondary_index"
                                           /\ last.res = "ok"
                                     THEN last.name ELSE "",
                            !.key = last.key,
                            !.slot = last.slot, !.wasActive = last.wasActive,
                            !.afterSave = last.afterSave, !.saved = last.saved]
  /\ UNCHANGED <<catFile, catTmp, created, okRows, parts, events>>

(***************************************************************************)
(* The environment damages a catalog file: truncation or a changed byte.   *)
(***************************************************************************)
Corruptions(data) ==
  IF data = <<>> THEN {}
  ELSE {SubSeq(data, 1, Len(data) \div 2), [data EXCEPT ![Len(data)] = @ + 1]}

Corrupt(sg) ==
  /\ pc = "idle"
  /\ events < MaxEvents
  /\ events' = events + 1
  /\ catFile[sg] # NoFile
  /\ deserialize(catFile[sg]).ok
  /\ \E bad \in Corruptions(catFile[sg]) :
       /\ ~deserialize(bad).ok
       /\ catFile' = [catFile EXCEPT ![sg] = bad]
  /\ last' = [NoLast EXCEPT !.op = "corrupt", !.slot = sg,
                            !.wasActive = (sg = catalog.active_segment),
                            !.afterSave = (last.op = "create_table" /\ last.res = "ok"),
                            !.saved = deserialize(catFile[sg]).tables]
  /\ UNCHANGED <<memory, catTmp, tblFile, idxFile, pc, frame, created, okRows, parts>>

(***************************************************************************)
(* Database::insert_row, scan_table, get_by_key.                           *)
(***************************************************************************)
\* the outcome of insert_row: [res, tfile, ifile, ihandle]
InsertRow(name, row) ==
  LET tf == tblFile[name]
      unchanged == [res |-> "err", tfile |-> tf, ifile |-> idxFile[name],
                    ihandle |-> IF name \in DOMAIN index_files THEN index_files[name]
                                ELSE [next_page_id |-> 0]]
  IN
  IF name \notin DOMAIN table_files \/ name \notin DOMAIN tables THEN unchanged
  ELSE IF Len(row) # Len(tables[name].schema) THEN unchanged
  ELSE
    LET row_bytes == EncodeRow(row)
        alloc == allocate_block(tf, 0)
    IN
    IF ~alloc.ok \/ ~alloc.some THEN unchanged
    ELSE
      LET rd == read_block(alloc.file, alloc.block_id)
          allocated == [unchanged EXCEPT !.tfile = alloc.file]
      IN
      IF ~rd.ok THEN allocated
      ELSE
        LET app == append_tuple(rd.block, row_bytes) IN
        IF ~app.some THEN allocated
        ELSE
          LET written == [unchanged EXCEPT
                            !.tfile = write_block(alloc.file, alloc.block_id, app.block)]
              tuple_ptr == TuplePointer(0, alloc.block_id, app.slot_id)
          IN
          IF tables[name].primary_index = <<>> THEN [written EXCEPT !.res = "ok"]
          ELSE IF row = <<>> \/ row[1].kind # "Int" THEN written
          ELSE IF name \notin DOMAIN index_files THEN written
          ELSE
            LET ins == btree_insert(idxFile[name], index_files[name],
                                    tables[name].primary_index[1].index.root_page_id,
                                    row[1].v[1], tuple_ptr)
            IN IF ~ins.ok THEN written
               ELSE [res |-> "ok", tfile |-> written.tfile, ifile |-> ins.file,
                     ihandle |-> ins.handle]

\* the value of the column the schema marks as primary key, <<>> if none
PkValue(schema, row) ==
  LET pk_cols == {i \in 1..Len(schema) : schema[i].is_primary_key} IN
  IF pk_cols = {} \/ Len(row) # Len(schema) THEN <<>> ELSE <<row[Min(pk_cols)]>>

\* the number of blocks marked used in the table files
BlocksUsed ==
  LET used(f) == IF f.hdr = <<>> THEN 0 ELSE f.hdr[1].blocks_used
      RECURSIVE Sum(_)
      Sum(S) == IF S = {} THEN 0
                ELSE LET n == CHOOSE x \in S : TRUE IN used(tblFile[n]) + Sum(S \ {n})
  IN Sum(Names)

insert_row(name, row) ==
  LET out == InsertRow(name, row)
      pk == IF name \in DOMAIN tables THEN PkValue(tables[name].schema, row) ELSE <<>>
      int_pk == pk # <<>> /\ pk[1].kind = "Int"
  IN
  /\ pc = "idle"
  /\ BlocksUsed < MaxInserts
  /\ tblFile' = [tblFile EXCEPT ![name] = out.tfile]
  /\ idxFile' = [idxFile EXCEPT ![name] = out.ifile]
  /\ index_files' = IF name \in DOMAIN index_files
                    THEN [index_files EXCEPT ![name] = out.ihandle] ELSE index_files
  /\ okRows' = IF out.res = "ok" THEN [okRows EXCEPT ![name] = Append(@, row)] ELSE okRows
  /\ last' = [Returned("insert_row", name, out.res) EXCEPT
                !.row = row,
                !.valid = int_pk,
                !.key = IF int_pk THEN pk ELSE <<>>,
                !.dup = (int_pk /\ last.name = name /\ last.key = pk),
                !.preFile = tblFile[name]]
  /\ UNCHANGED <<tables, table_files, catalog, catFile, catTmp, pc, frame, created,
                 events, parts>>

\* the rows of the slots slot_id.. of a block: [ok, rows]
RECURSIVE ScanSlots(_, _)
ScanSlots(block, slot_id) ==
  IF slot_id >= block.slot_count THEN [ok |-> TRUE, rows |-> <<>>]
  ELSE LET t == read_tuple(block, slot_id)
           rest == ScanSlots(block, slot_id + 1)
       IN IF ~t.some THEN rest
          ELSE LET d == DecodeRow(t.bytes) IN
               IF ~d.ok \/ ~rest.ok THEN [ok |-> FALSE, rows |-> <<>>]
               ELSE [ok |-> TRUE, rows |-> <<d.row>> \o rest.rows]

\* the rows of the used blocks block_id.. of segment 0: [ok, rows]
RECURSIVE ScanBlocks(_, _, _)
ScanBlocks(f, hdr, block_id) ==
  IF block_id >= BLOCKS_PER_UNCOMPRESSED_SEGMENT THEN [ok |-> TRUE, rows |-> <<>>]
  ELSE IF is_block_free(hdr, block_id) THEN ScanBlocks(f, hdr, block_id + 1)
  ELSE LET rd == read_block(f, block_id) IN
       IF ~rd.ok THEN [ok |-> FALSE, rows |-> <<>>]
       ELSE LET here == ScanSlots(rd.block, 0)
                rest == ScanBlocks(f, hdr, block_id + 1)
            IN IF ~here.ok \/ ~rest.ok THEN [ok |-> FALSE, rows |-> <<>>]
               ELSE [ok |-> TRUE, rows |-> here.rows \o rest.rows]

\* Database::scan_table: [ok, rows]
scan_table(name) ==
  IF name \notin DOMAIN table_files THEN [ok |-> FALSE, rows |-> <<>>]
  ELSE LET h == read_segment_header(tblFile[name]) IN
       IF ~h.ok THEN [ok |-> FALSE, rows |-> <<>>]
       ELSE ScanBlocks(tblFile[name], h.hdr, 0)

\* Database::get_by_key: [ok, some, ptr]
get_by_key(name, key) ==
  IF name \notin DOMAIN tables
  THEN [ok |-> FALSE, some |-> FALSE, ptr |-> TuplePointer(0, 0, 0)]
  ELSE IF tables[name].primary_index = <<>>
  THEN [ok |-> TRUE, some |-> FALSE, ptr |-> TuplePointer(0, 0, 0)]
  ELSE IF name \notin DOMAIN index_files
  THEN [ok |-> FALSE, some |-> FALSE, ptr |-> TuplePointer(0, 0, 0)]
  ELSE btree_search(idxFile[name], tables[name].primary_index[1].index.root_page_id, key)

\* Database::get_schema: [ok, schema]
get_schema(name) ==
  IF name \in DOMAIN tables THEN [ok |-> TRUE, schema |-> tables[name].schema]
  ELSE [ok |-> FALSE, schema |-> <<>>]

(***************************************************************************)
(* Index lookups of the Database (mod.rs, index/mod.rs, index/hash.rs) and *)
(* the index scan of the executor (executor/mod.rs).                       *)
(***************************************************************************)
\* Database::read_block: [ok, block]
Database_read_block(segment_id, block_id) == [ok |-> FALSE, block |-> ZeroBlock]

\* HashIndex::hash_key: the mixing steps of the code (xor with the seed,
\* wrapping multiplication, xor with the upper half, twice, truncation to the
\* lower half) on words of 14 bits instead of 64, the multipliers cut to the
\* word
hash_key(seed, key) ==
  LET RECURSIVE Xor(_, _)
      Xor(a, b) == IF a = 0 THEN b
                   ELSE IF b = 0 THEN a
                   ELSE ((a + b) % 2) + 2 * Xor(a \div 2, b \div 2)
      word == 2 ^ 14
      h1 == (Xor(seed % word, key % word) * 3277) % word
      h2 == Xor(h1, h1 \div (2 ^ 7))
      h3 == (h2 * 11347) % word
      h4 == Xor(h3, h3 \div (2 ^ 8))
  IN h4 % (2 ^ 7)

\* the index instance the builder registry creates: BTree::new or
\* HashIndex::new with its seed
NewIndex(index_type, root_page_id, seed) ==
  IF index_type = "hash"
  THEN [root_page_id |-> root_page_id, bucket_pages |-> Empty, seed |-> seed]
  ELSE [root_page_id |-> root_page_id]

\* a search_in_page that finds no key
search_in_page_never(page, key) == <<FALSE, 0>>

\* HashIndex::search_in_page: <<found, pos>>, the first entry with the key
search_in_page(page, key) ==
  LET hits == {i \in 1..num_keys(page) : page.entries[i].key = key} IN
  IF hits = {} THEN <<FALSE, 0>> ELSE <<TRUE, Min(hits) - 1>>

\* HashIndex::search along the chain of the key's bucket: [ok, some, ptr]
RECURSIVE hash_search_chain(_, _, _, _)
hash_search_chain(f, current_id, key, fuel) ==
  LET rd == read_page(f, current_id) IN
  IF ~rd.ok \/ ~validate(rd.page) \/ fuel = 0
  THEN [ok |-> FALSE, some |-> FALSE, ptr |-> TuplePointer(0, 0, 0)]
  ELSE LET found == search_in_page(rd.page, key) IN
       IF found[1]
       THEN [ok |-> TRUE, some |-> TRUE,
             ptr |-> as_tuple_pointer(rd.page.entries[found[2] + 1])]
       ELSE IF rd.page.next_page_id = 0
       THEN [ok |-> TRUE, some |-> FALSE, ptr |-> TuplePointer(0, 0, 0)]
       ELSE hash_search_chain(f, rd.page.next_page_id, key, fuel - 1)

hash_search(f, index, key) ==
  LET bucket_hash == hash_key(index.seed, key) IN
  IF bucket_hash \notin DOMAIN index.bucket_pages
  THEN [ok |-> TRUE, some |-> FALSE, ptr |-> TuplePointer(0, 0, 0)]
  ELSE hash_search_chain(f, index.bucket_pages[bucket_hash], key, 4)

\* HashIndex::insert along the chain of the key's bucket: [ok, file, handle]
RECURSIVE hash_insert_chain(_, _, _, _, _, _)
hash_insert_chain(f, h, current_id, key, pointer, fuel) ==
  LET rd == read_page(f, current_id)
      entry == IndexEntry(key, pointer)
  IN
  IF ~rd.ok \/ ~validate(rd.page) \/ fuel = 0
  THEN [ok |-> FALSE, file |-> f, handle |-> h]
  ELSE LET found == search_in_page(rd.page, key)
           ia == insert_at(rd.page, num_keys(rd.page), entry)
           overflow_id == PageId(h.next_page_id)
       IN
       IF found[1]
       THEN [ok |-> TRUE, handle |-> h,
             file |-> write_page(f, current_id,
                                 [rd.page EXCEPT !.entries[found[2] + 1] = entry])]
       ELSE IF ia.res = "ok"
       THEN [ok |-> TRUE, handle |-> h, file |-> write_page(f, current_id, ia.page)]
       ELSE IF ia.res # "full" THEN [ok |-> FALSE, file |-> f, handle |-> h]
       ELSE IF rd.page.next_page_id # 0
       THEN hash_insert_chain(f, h, rd.page.next_page_id, key, pointer, fuel - 1)
       ELSE [ok |-> TRUE, handle |-> [h EXCEPT !.next_page_id = @ + 1],
             file |-> write_page(
                        write_page(f, current_id,
                                   [rd.page EXCEPT !.next_page_id = overflow_id]),
                        overflow_id,
                        insert_at(NewIndexPage(TRUE), 0, entry).page)]

\* a HashIndex::insert that does not enter a new bucket's page into bucket_pages
hash_insert_unmapped(f, h, index, key, pointer) ==
  LET bucket_hash == hash_key(index.seed, key)
      known == bucket_hash \in DOMAIN index.bucket_pages
      first_page_id == IF known THEN index.bucket_pages[bucket_hash]
                       ELSE PageId(h.next_page_id)
      ch == hash_insert_chain(
              IF known THEN f ELSE write_page(f, first_page_id, NewIndexPage(TRUE)),
              IF known THEN h ELSE [h EXCEPT !.next_page_id = @ + 1],
              first_page_id, key, pointer, 4)
  IN [ok |-> ch.ok, file |-> ch.file, handle |-> ch.handle, index |-> index]

\* HashIndex::insert with get_bucket_page: [ok, file, handle, index]
hash_insert(f, h, index, key, pointer) ==
  LET bucket_hash == hash_key(index.seed, key)
      known == bucket_hash \in DOMAIN index.bucket_pages
      first_page_id == IF known THEN index.bucket_pages[bucket_hash]
                       ELSE PageId(h.next_page_id)
      ch == hash_insert_chain(
              IF known THEN f ELSE write_page(f, first_page_id, NewIndexPage(TRUE)),
              IF known THEN h ELSE [h EXCEPT !.next_page_id = @ + 1],
              first_page_id, key, pointer, 4)
  IN [ok |-> ch.ok, file |-> ch.file, handle |-> ch.handle,
      index |-> [index EXCEPT !.bucket_pages = Put(@, bucket_hash, first_page_id)]]

\* Index::search of the instance an IndexMetadata holds
index_search(meta, f, key) ==
  IF meta.index_type = "hash" THEN hash_search(f, meta.index, key)
  ELSE btree_search(f, meta.index.root_page_id, key)

\* Index::capability as a Box<dyn Index> answers it: the default of the
\* trait, which neither BTree nor HashIndex overrides
capability(meta) == "PointOnly"

\* Index::range_scan as a Box<dyn Index> answers it: the default of the trait
range_scan(meta, start_key, end_key, f) == [ok |-> TRUE, results |-> <<>>]

\* OrderedIndex::range_scan of BTree with its range_scan_page, the <<key,
\* pointer>> pairs of the leaf that lie in the range: [ok, results]
btree_range_scan(f, root_id, start_key, end_key) ==
  LET lf == find_leaf_page(f, root_id, start_key, 4)
      in_range(e) == e.key >= start_key /\ e.key <= end_key
      hit == SelectSeq(lf.page.entries, in_range)
  IN
  IF ~lf.ok THEN [ok |-> FALSE, results |-> <<>>]
  ELSE [ok |-> TRUE,
        results |-> [i \in 1..Len(hit) |-> <<hit[i].key, as_tuple_pointer(hit[i])>>]]

\* Database::range_scan_index: [ok, ptrs]
range_scan_index(name, start_key, end_key) ==
  IF name \notin DOMAIN tables THEN [ok |-> FALSE, ptrs |-> <<>>]
  ELSE IF tables[name].primary_index = <<>> THEN [ok |-> TRUE, ptrs |-> <<>>]
  ELSE IF capability(tables[name].primary_index[1]) # "Ordered"
  THEN [ok |-> TRUE, ptrs |-> <<>>]
  ELSE IF name \notin DOMAIN index_files THEN [ok |-> FALSE, ptrs |-> <<>>]
  ELSE LET r == range_scan(tables[name].primary_index[1], start_key, end_key,
                           idxFile[name])
       IN [ok |-> r.ok, ptrs |-> [i \in 1..Len(r.results) |-> r.results[i][2]]]

\* format!("{}_{}", table_name, index_name), the key under which index_files
\* holds the handle of a secondary index, on the names offered
IndexFileKey(name, index_name) ==
  CASE name = "a" /\ index_name = "ix" -> "a_ix"
    [] name = "b" /\ index_name = "ix" -> "b_ix"
    [] OTHER -> "_"

\* Database::find_secondary_index: <<>> or <<IndexMetadata>>, the first
\* secondary index of the table on the column; [ok, found]
find_secondary_index(name, column) ==
  IF name \notin DOMAIN tables THEN [ok |-> FALSE, found |-> <<>>]
  ELSE LET hits == {i \in 1..Len(tables[name].secondary_indexes) :
                      tables[name].secondary_indexes[i].column = column}
       IN [ok |-> TRUE,
           found |-> IF hits = {} THEN <<>>
                     ELSE <<tables[name].secondary_indexes[Min(hits)]>>]

\* Database::search_secondary_index: [ok, some, ptr]
search_secondary_index(name, column, key) ==
  LET index_opt == find_secondary_index(name, column) IN
  IF ~index_opt.ok THEN [ok |-> FALSE, some |-> FALSE, ptr |-> TuplePointer(0, 0, 0)]
  ELSE IF index_opt.found = <<>>
  THEN [ok |-> TRUE, some |-> FALSE, ptr |-> TuplePointer(0, 0, 0)]
  ELSE LET index_file_key == IndexFileKey(name, index_opt.found[1].name) IN
       IF index_file_key \notin DOMAIN index_files
       THEN [ok |-> FALSE, some |-> FALSE, ptr |-> TuplePointer(0, 0, 0)]
       ELSE index_search(index_opt.found[1], idxFile[index_file_key], key)

\* Executor::execute_plan_rows on Operator::IndexScan, the value an integer
\* or NULL literal: [ok, rows]
IndexScan(table, column, value) ==
  IF ~get_schema(table).ok \/ value.kind # "Int" THEN [ok |-> FALSE, rows |-> <<>>]
  ELSE
    LET key == value.v[1]
        secondary == search_secondary_index(table, column, key)
        result == IF secondary.ok THEN secondary ELSE get_by_key(table, key)
    IN
    IF ~result.ok THEN [ok |-> FALSE, rows |-> <<>>]
    ELSE IF ~result.some THEN [ok |-> TRUE, rows |-> <<>>]
    ELSE
      LET rd == Database_read_block(result.ptr.segment_id, result.ptr.block_id) IN
      IF ~rd.ok THEN [ok |-> FALSE, rows |-> <<>>]
      ELSE LET t == read_tuple(rd.block, result.ptr.slot_id) IN
           IF ~t.some THEN [ok |-> TRUE, rows |-> <<>>]
           ELSE LET d == DecodeRow(t.bytes) IN
                IF ~d.ok THEN [ok |-> FALSE, rows |-> <<>>]
                ELSE [ok |-> TRUE, rows |-> <<d.row>>]

(***************************************************************************)
(* Database::create_secondary_index.                                       *)
(***************************************************************************)
\* the index types of the builder registry and the seeds a HashIndex may draw
IndexTypes == {"btree", "hash"}

Seeds == {1, 2}

create_secondary_index(index_name, name, column, index_type, seed) ==
  LET index_file_key == IndexFileKey(name, index_name)
      root_page_id == PageId(0)
      index_meta == [IndexMetadata(index_name, column, index_type, root_page_id) EXCEPT
                       !.index = NewIndex(index_type, root_page_id, seed)]
  IN
  /\ pc = "idle"
  /\ IF name \notin DOMAIN tables
     THEN /\ last' = Returned("create_secondary_index", name, "err")
          /\ UNCHANGED <<memory, disk>>
     ELSE /\ Len(tables[name].secondary_indexes) < MaxIndexes
          /\ idxFile' = [idxFile EXCEPT ![index_file_key] = OpenIndexFile(@)]
          /\ tables' = [tables EXCEPT ![name].secondary_indexes = Append(@, index_meta)]
          /\ index_files' = Put(index_files, index_file_key, [next_page_id |-> 1])
          /\ last' = Returned("create_secondary_index", name, "ok")
          /\ UNCHANGED <<table_files, catalog, catFile, catTmp, tblFile>>
  /\ UNCHANGED <<pc, frame, created, okRows, parts, events>>

(***************************************************************************)
(* Specification.                                                          *)
(***************************************************************************)
Next ==
  \/ \E name \in Names, fault \in Faults : create_table(name, SchemaOf(name), fault)
  \/ \E fail \in BOOLEAN : save_create_temp(fail)
  \/ \E fail \in BOOLEAN : save_write(fail)
  \/ \E fail \in BOOLEAN : save_sync(fail)
  \/ \E fail \in BOOLEAN : save_rename(fail)
  \/ save_flip
  \/ \E name \in Names, row \in Rows : insert_row(name, row)
  \/ Restart
  \/ \E sg \in 0..1 : Corrupt(sg)

Spec == Init /\ [][Next]_vars

\* the Database with its secondary indexes, in an environment without I/O
\* failures
NextIndex ==
  \/ \E name \in Names : create_table(name, SchemaOf(name), "none")
  \/ save_create_temp(FALSE)
  \/ save_write(FALSE)
  \/ save_sync(FALSE)
  \/ save_rename(FALSE)
  \/ save_flip
  \/ \E name \in Names, row \in Rows : insert_row(name, row)
  \/ \E name \in Names, index_type \in IndexTypes, seed \in Seeds :
       create_secondary_index("ix", name, "v", index_type, seed)
  \/ Restart

SpecIndex == Init /\ [][NextIndex]_vars

\* the byte strings offered to append_tuple: the empty one, two short ones,
\* and one that leaves room in a fresh block for ten more bytes of payloads
\* and slot entries
Payloads ==
  << <<>>, <<1>>, <<2, 3>>,
     [i \in 1..(BLOCK_SIZE - BLOCK_HEADER_SIZE - SLOT_ENTRY_SIZE - 10) |-> 7] >>

\* Block::append_tuple of payload number p on the block
AppendTuple(p) ==
  LET app == append_tuple(blk, Payloads[p]) IN
  /\ Len(appended) < MaxAppends
  /\ blk' = app.block
  /\ appended' = Append(appended, [p |-> p, some |-> app.some, slot_id |-> app.slot_id])
  /\ UNCHANGED <<database, seg, segLast, tree, treeLog, hix, hixLog, codec, latch, pgs, wlog,
                 tasks>>

\* a Block on its own
NextBlock == \E p \in DOMAIN Payloads : AppendTuple(p)

SpecBlock == Init /\ [][NextBlock]_vars

\* TableFile::allocate_segment on the file: the next segment is initialized
\* and becomes the one seg holds
AllocateSegment ==
  /\ seg.next_segment_id < MaxSegments
  /\ seg' = [next_segment_id |-> seg.next_segment_id + 1,
             file |-> initialize_segment(OpenTableFile(NoTableFile), seg.next_segment_id)]
  /\ segLast' = [op |-> "allocate_segment", ok |-> TRUE, some |-> FALSE, block_id |-> 0]
  /\ UNCHANGED <<database, blk, appended, tree, treeLog, hix, hixLog, codec, latch, pgs, wlog,
                 tasks>>

\* TableFile::allocate_block in the segment handed out last
AllocateBlock ==
  LET alloc == allocate_block(seg.file, seg.next_segment_id - 1) IN
  /\ seg' = [seg EXCEPT !.file = alloc.file]
  /\ segLast' = [op |-> "allocate_block", ok |-> alloc.ok, some |-> alloc.some,
                 block_id |-> alloc.block_id]
  /\ UNCHANGED <<database, blk, appended, tree, treeLog, hix, hixLog, codec, latch, pgs, wlog,
                 tasks>>

\* TableFile::free_block in the segment handed out last
FreeBlock(block_id) ==
  LET fr == free_block(seg.file, seg.next_segment_id - 1, block_id) IN
  /\ seg' = [seg EXCEPT !.file = fr.file]
  /\ segLast' = [op |-> "free_block", ok |-> fr.ok, some |-> FALSE, block_id |-> block_id]
  /\ UNCHANGED <<database, blk, appended, tree, treeLog, hix, hixLog, codec, latch, pgs, wlog,
                 tasks>>

\* a TableFile on its own
NextSegment ==
  \/ AllocateSegment
  \/ AllocateBlock
  \/ \E block_id \in 0..MaxFreeId : FreeBlock(block_id)

SpecSegment == Init /\ [][NextSegment]_vars

\* the keys offered to BTree::insert: the even keys 2, 4, .. in ascending
\* order, and at any time an odd key below all of them and one amid them
SeqKey(i) == 2 * i

ExtraKeys == {1, MAX_ENTRIES + 3}

\* BTree::insert of (key, pointer) into the tree
TreeInsert(key, pointer) ==
  LET ins == btree_insert(tree.file, tree.handle, PageId(0), key, pointer) IN
  /\ tree' = [file |-> ins.file, handle |-> ins.handle]
  /\ treeLog' = [inserted |-> IF ins.ok THEN Put(treeLog.inserted, key, pointer)
                              ELSE treeLog.inserted,
                 last |-> [key |-> key, ptr |-> pointer, ok |-> ins.ok, split |-> ins.split,
                           promoted_key |-> ins.promoted_key,
                           existed |-> key \in DOMAIN treeLog.inserted,
                           pre |-> tree.file.pages]]
  /\ UNCHANGED <<database, blk, appended, seg, segLast, hix, hixLog, codec, latch, pgs, wlog,
                 tasks>>

\* a B+-tree on its own
NextTree ==
  \/ \E i \in 1..MaxKeys :
       /\ SeqKey(i) \notin DOMAIN treeLog.inserted
       /\ \A j \in 1..(i - 1) : SeqKey(j) \in DOMAIN treeLog.inserted
       /\ TreeInsert(SeqKey(i), TuplePointer(0, 1, i))
  \/ \E key \in ExtraKeys, slot_id \in 0..1 : TreeInsert(key, TuplePointer(0, 2, slot_id))

SpecTree == Init /\ [][NextTree]_vars

\* the keys of one bucket, whatever the seed, offered to HashIndex::insert:
\* the i-th of a series inserted in ascending order
HashKey(i) == 5 + i * (2 ^ 14)

\* HashIndex::insert of (key, pointer) into the index
HashInsert(key, pointer) ==
  LET ins == hash_insert(hix.file, hix.handle, hix.index, key, pointer) IN
  /\ hix.index # <<>>
  /\ hix' = [file |-> ins.file, handle |-> ins.handle, index |-> ins.index]
  /\ hixLog' = [inserted |-> IF ins.ok THEN Put(hixLog.inserted, key, pointer)
                             ELSE hixLog.inserted,
                ok |-> hixLog.ok /\ ins.ok]
  /\ UNCHANGED <<database, blk, appended, seg, segLast, tree, treeLog, codec, latch, pgs, wlog,
                 tasks>>

\* a HashIndex on its own: HashIndex::new over an index file whose page 0 was
\* allocated for the root, then inserts of the series, of a second pointer
\* for its first key and for the first key past a full page, and of a key of
\* another bucket
NextHash ==
  \/ \E seed \in Seeds :
       /\ hix.index = <<>>
       /\ hix' = [hix EXCEPT !.index = NewIndex("hash", PageId(0), seed)]
       /\ UNCHANGED <<database, blk, appended, seg, segLast, tree, treeLog, hixLog,
                      codec, latch, pgs, wlog, tasks>>
  \/ \E i \in 1..MaxHashKeys :
       /\ HashKey(i) \notin DOMAIN hixLog.inserted
       /\ \A j \in 1..(i - 1) : HashKey(j) \in DOMAIN hixLog.inserted
       /\ HashInsert(HashKey(i), TuplePointer(0, 1, i))
  \/ \E i \in {1, MAX_ENTRIES + 1} :
       /\ HashKey(i) \in DOMAIN hixLog.inserted
       /\ HashInsert(HashKey(i), TuplePointer(0, 2, i))
  \/ HashInsert(6, TuplePointer(0, 3, 0))

SpecHash == Init /\ [][NextHash]_vars

\* the values of the rows offered to the row codec; an Extension value is
\* its type_oid, the only part of it the encoder reads
Values ==
  {VNull, VStr(<<>>), VStr(<<7>>), VStr(<<0, 1>>)}
    \cup {VInt(n) : n \in -2..1}
    \cup {[kind |-> "Bool", v |-> <<b>>] : b \in 0..1}
    \cup {[kind |-> "Extension", v |-> <<oid>>] : oid \in {0, 9}}

\* bincode::encode_to_vec of a row and bincode::decode_from_slice of the
\* bytes it returns
EncodeDecode(row) ==
  /\ codec' = [row |-> row, bytes |-> EncodeRow(row), decoded |-> DecodeRow(EncodeRow(row))]
  /\ UNCHANGED <<database, blk, appended, seg, segLast, tree, treeLog, hix, hixLog,
                 latch, pgs, wlog, tasks>>

\* the row codec on its own
NextCodec == \E n \in 0..MaxRowLen : \E row \in [1..n -> Values] : EncodeDecode(row)

SpecCodec == Init /\ [][NextCodec]_vars

\* Mutex::lock on the index of an IndexMetadata by thread t: whether the call
\* returns now, which it does only while no thread holds the guard
mutex_lock_free(holder, t) == TRUE

mutex_lock(holder, t) == holder = 0

\* insert_row and get_by_key up to the guard: the thread takes the Mutex of
\* the index before it calls insert or search on it
IndexLock(t, op, key) ==
  /\ latch.thr[t].pc = "idle"
  /\ mutex_lock(latch.holder, t)
  /\ latch' = [latch EXCEPT !.holder = t,
                            !.thr[t] = [pc |-> "locked", op |-> op, key |-> key,
                                        page |-> ZeroPage]]
  /\ UNCHANGED <<database, blk, appended, seg, segLast, tree, treeLog, hix, hixLog,
                 codec, pgs, wlog, tasks>>

\* the read_page of the root that both BTree::insert and BTree::search begin
\* with
IndexReadPage(t) ==
  /\ latch.thr[t].pc = "locked"
  /\ latch' = [latch EXCEPT !.thr[t].pc = "read",
                            !.thr[t].page = read_page(latch.file, PageId(0)).page]
  /\ UNCHANGED <<database, blk, appended, seg, segLast, tree, treeLog, hix, hixLog,
                 codec, pgs, wlog, tasks>>

\* BTree::insert after its read: insert_into_page on the page it read and
\* write_page of the result; the pointer names the inserting thread
IndexWritePage(t) ==
  /\ latch.thr[t].pc = "read"
  /\ latch.thr[t].op = "insert"
  /\ LET ins == insert_into_page(latch.thr[t].page, latch.thr[t].key, TuplePointer(0, 1, t))
     IN latch' = [latch EXCEPT !.thr[t].pc = "written",
                               !.thr[t].page = ins.page,
                               !.file = write_page(@, PageId(0), ins.page)]
  /\ UNCHANGED <<database, blk, appended, seg, segLast, tree, treeLog, hix, hixLog,
                 codec, pgs, wlog, tasks>>

\* the guard goes out of scope when insert or search has returned
IndexUnlock(t) ==
  /\ \/ latch.thr[t].pc = "written"
     \/ latch.thr[t].pc = "read" /\ latch.thr[t].op = "search"
  /\ latch' = [latch EXCEPT !.holder = 0, !.thr[t].pc = "idle"]
  /\ UNCHANGED <<database, blk, appended, seg, segLast, tree, treeLog, hix, hixLog,
                 codec, pgs, wlog, tasks>>

\* threads inserting into and searching one index
NextLatch ==
  \/ \E t \in 1..MaxThreads, op \in {"insert", "search"}, key \in 1..MaxLatchKeys :
       IndexLock(t, op, key)
  \/ \E t \in 1..MaxThreads : IndexReadPage(t)
  \/ \E t \in 1..MaxThreads : IndexWritePage(t)
  \/ \E t \in 1..MaxThreads : IndexUnlock(t)

SpecLatch == Init /\ [][NextLatch]_vars

\* an index file on its own: allocate_page on the open file, and the file
\* closed and opened again with IndexFile::open
NextPages ==
  \/ LET a == allocate_page(pgs.handle) IN
     /\ Len(pgs.allocated) < MaxAllocs
     /\ pgs' = [handle |-> a.handle, allocated |-> Append(pgs.allocated, a.page_id)]
     /\ UNCHANGED <<database, blk, appended, seg, segLast, tree, treeLog, hix, hixLog,
                    codec, latch, wlog, tasks>>
  \/ /\ pgs.handle.next_page_id > 0
     /\ pgs' = [pgs EXCEPT !.handle = [next_page_id |-> 0]]
     /\ UNCHANGED <<database, blk, appended, seg, segLast, tree, treeLog, hix, hixLog,
                    codec, latch, wlog, tasks>>

SpecPages == Init /\ [][NextPages]_vars

\* a WalFile on its own, opened on a new file: entries of the types Insert,
\* Delete and Checkpoint are appended; then iter_from(0) makes an
\* iterator, which borrows the file, and next is called on it until it
\* returns None or an error
NextWal ==
  \/ \E entry \in {[entry_type |-> 1, payload |-> <<1, 2, 3, 4, 5>>, lsn |-> 0],
                    [entry_type |-> 2, payload |-> <<3>>, lsn |-> 0],
                    [entry_type |-> 5, payload |-> <<>>, lsn |-> 0]} :
     \E pad \in {<<0, 0>>, <<0, 255>>, <<255, 0>>, <<255, 255>>} :
       LET a == wal_append(wlog.wal, entry, pad) IN
       /\ wlog.iter = <<>>
       /\ Len(wlog.appended) < MaxWal
       /\ wlog' = [wlog EXCEPT !.wal = a.wal,
                                !.appended = Append(@, [entry_type |-> entry.entry_type,
                                                        payload |-> entry.payload,
                                                        offset |-> a.offset])]
       /\ UNCHANGED <<database, blk, appended, seg, segLast, tree, treeLog, hix, hixLog,
                      codec, latch, pgs, tasks>>
  \/ /\ wlog.iter = <<>>
     /\ wlog' = [wlog EXCEPT !.iter = <<[current_offset |-> 0, yielded |-> <<>>,
                                         ended |-> "no"]>>]
     /\ UNCHANGED <<database, blk, appended, seg, segLast, tree, treeLog, hix, hixLog,
                    codec, latch, pgs, tasks>>
  \/ /\ wlog.iter # <<>>
     /\ wlog.iter[1].ended = "no"
     /\ LET rd == wal_read_at(wlog.wal, wlog.iter[1].current_offset) IN
        wlog' = [wlog EXCEPT !.iter[1] =
                   IF ~rd.ok THEN [@ EXCEPT !.ended = "error"]
                   ELSE IF ~rd.some THEN [@ EXCEPT !.ended = "none"]
                   ELSE [current_offset |-> @.current_offset + 56 + Len(rd.payload),
                         yielded |-> Append(@.yielded, [entry_type |-> rd.entry_type,
                                                        payload |-> rd.payload]),
                         ended |-> "no"]]
     /\ UNCHANGED <<database, blk, appended, seg, segLast, tree, treeLog, hix, hixLog,
                    codec, latch, pgs, tasks>>

SpecWal == Init /\ [][NextWal]_vars

(***************************************************************************)
(* The locks of the Executor and the Database.                             *)
(***************************************************************************)
Program_nested(op) ==
  <<[lock |-> "database", mode |-> "read"], [lock |-> "metadata", mode |-> "read"],
    [lock |-> "index", mode |-> "lock"], [lock |-> "index", mode |-> "lock"],
    [lock |-> "index", mode |-> "unlock"], [lock |-> "metadata", mode |-> "unlock"],
    [lock |-> "database", mode |-> "unlock"]>>

\* the lock calls of one statement, in program order, a guard's end of scope
\* as an unlock: "database" is Executor.db, "metadata" the RwLock of the
\* table's TableMetadata, "index" the Mutex of its primary index, "secondary"
\* the Mutex of its secondary index, "counter" the next_segment_id or
\* next_page_id Mutex of a file
Program(op) ==
  LET acq(l, m) == <<[lock |-> l, mode |-> m]>>
      rel(l) == <<[lock |-> l, mode |-> "unlock"]>>
      locks_counter == acq("counter", "lock") \o rel("counter")
      locks_get_schema == acq("metadata", "read") \o rel("metadata")
      locks_get_by_key == acq("metadata", "read") \o acq("index", "lock") \o rel("index")
                      \o rel("metadata")
      locks_search_secondary_index ==
        acq("metadata", "read") \o rel("metadata") \o acq("secondary", "lock")
          \o rel("secondary")
      locks_range_scan_index ==
        acq("metadata", "read") \o acq("index", "lock") \o rel("index")
          \o acq("index", "lock") \o rel("index") \o rel("metadata")
      locks_insert_row == acq("metadata", "read") \o acq("index", "lock") \o locks_counter
                      \o rel("index") \o rel("metadata")
      locks_create_secondary_index ==
        locks_counter \o acq("metadata", "write") \o rel("metadata")
  IN CASE op = "create_table" ->
            acq("database", "write") \o locks_counter \o locks_counter \o rel("database")
       [] op = "insert" ->
            acq("database", "read") \o locks_get_schema \o rel("database")
              \o acq("database", "write") \o locks_insert_row \o rel("database")
       [] op = "create_index" ->
            acq("database", "write") \o locks_create_secondary_index \o rel("database")
       [] op = "get_schema" ->
            acq("database", "read") \o locks_get_schema \o rel("database")
       [] op = "index_scan" ->
            acq("database", "read") \o locks_get_schema \o locks_search_secondary_index
              \o locks_get_by_key \o rel("database")
       [] op = "range_scan" ->
            acq("database", "read") \o locks_range_scan_index \o rel("database")

\* whether thread t's call ins returns at once: a write lock or a Mutex lock
\* while nobody has a guard of the lock, a read lock while nobody has its
\* write guard and no other thread is in a call for it, an unlock always
lock_free(t, ins) ==
  LET guards == {g \in UNION {tasks[u].held : u \in 1..MaxThreads} : g[1] = ins.lock}
      writer(u) == /\ u # t
                   /\ tasks[u].pc > 0
                   /\ Program(tasks[u].op)[tasks[u].pc] = [ins EXCEPT !.mode = "write"]
  IN CASE ins.mode = "unlock" -> TRUE
       [] ins.mode = "read" ->
            /\ \A g \in guards : g[2] = "read"
            /\ ~\E u \in 1..MaxThreads : writer(u)
       [] OTHER -> guards = {}

\* the threads of one Executor: a thread takes a statement and is at its
\* first lock call; a call that can return returns, the thread moving on to
\* its next call and, after the last, out of the statement; or the code
\* before a call that would not block returns an error, which drops every
\* guard in scope
NextTasks ==
  \/ \E t \in 1..MaxThreads :
     \E op \in {"create_table", "insert", "create_index", "get_schema", "index_scan",
                "range_scan"} :
       /\ tasks[t].pc = 0
       /\ tasks' = [tasks EXCEPT ![t] = [op |-> op, pc |-> 1, held |-> {}]]
       /\ UNCHANGED <<database, blk, appended, seg, segLast, tree, treeLog, hix, hixLog,
                      codec, latch, pgs, wlog>>
  \/ \E t \in 1..MaxThreads :
       /\ tasks[t].pc > 0
       /\ LET ins == Program(tasks[t].op)[tasks[t].pc]
              held == IF ins.mode = "unlock"
                      THEN {g \in tasks[t].held : g[1] # ins.lock}
                      ELSE tasks[t].held \cup {<<ins.lock, ins.mode>>}
          IN /\ lock_free(t, ins)
             /\ tasks' = [tasks EXCEPT ![t] =
                            IF tasks[t].pc = Len(Program(tasks[t].op))
                            THEN [op |-> "none", pc |-> 0, held |-> held]
                            ELSE [@ EXCEPT !.pc = @ + 1, !.held = held]]
       /\ UNCHANGED <<database, blk, appended, seg, segLast, tree, treeLog, hix, hixLog,
                      codec, latch, pgs, wlog>>
  \/ \E t \in 1..MaxThreads :
       /\ tasks[t].pc > 0
       /\ tasks[t].held # {}
       /\ lock_free(t, Program(tasks[t].op)[tasks[t].pc])
       /\ tasks' = [tasks EXCEPT ![t] = [op |-> "none", pc |-> 0, held |-> {}]]
       /\ UNCHANGED <<database, blk, appended, seg, segLast, tree, treeLog, hix, hixLog,
                      codec, latch, pgs, wlog>>

SpecTasks == Init /\ [][NextTasks]_vars

(***************************************************************************)
(* Observations used by the properties.                                    *)
(***************************************************************************)
\* the row a TuplePointer addresses in the table file of name: <<row>> or <<>>
RowAt(name, ptr) ==
  LET rd == read_block(tblFile[name], ptr.block_id) IN
  IF ~rd.ok THEN <<>>
  ELSE LET t == read_tuple(rd.block, ptr.slot_id) IN
       IF ~t.some THEN <<>>
       ELSE LET d == DecodeRow(t.bytes) IN IF d.ok THEN <<d.row>> ELSE <<>>

\* the <<block_id, slot_id>> of the non-empty slots of the used blocks
StoredSlots(name) ==
  LET h == read_segment_header(tblFile[name]) IN
  IF ~h.ok THEN {}
  ELSE {bs \in (1..(BLOCKS_PER_UNCOMPRESSED_SEGMENT - 1)) \X (0..MaxInserts) :
          /\ ~is_block_free(h.hdr, bs[1])
          /\ RowAt(name, TuplePointer(0, bs[1], bs[2])) # <<>>}

\* get_by_key of the row's primary-key value yields a pointer to that very row
Observes(name, row) ==
  LET pk == PkValue(tables[name].schema, row)
      r == get_by_key(name, pk[1].v[1])
  IN r.ok /\ r.some /\ RowAt(name, r.ptr) = <<row>>

\* the catalog the file of slot sg holds, the empty one when it holds none
Held(sg) ==
  IF catFile[sg] # NoFile /\ deserialize(catFile[sg]).ok
  THEN deserialize(catFile[sg]).tables ELSE Empty

(***************************************************************************)
(* Properties.                                                             *)
(***************************************************************************)
\* C1: after a restart, every table whose create_table returned Ok is in the
\* new Database, whatever the number of catalog saves before the restart.
C1_CreatedTablesSurviveRestart ==
  (last.op = "restart" /\ events = 0) => created \subseteq DOMAIN tables

\* C2: with no I/O failure, scan_table of a table returns exactly the rows
\* whose insert_row returned Ok, each once, in insertion order.
C2_ScanReturnsInsertedRows ==
  (pc = "idle" /\ events = 0) =>
    \A t \in DOMAIN tables : scan_table(t) = [ok |-> TRUE, rows |-> okRows[t]]

\* C3: every stored row with a primary key is found by get_by_key under its
\* key, get_by_key after insert_row of a row observes that row, and every
\* pointer held in the primary index addresses a non-empty slot.
C3_PrimaryIndexMatchesRows ==
  /\ \A t \in DOMAIN tables : \A bs \in StoredSlots(t) :
       LET row == RowAt(t, TuplePointer(0, bs[1], bs[2]))[1]
           pk == PkValue(tables[t].schema, row)
       IN (pk # <<>> /\ pk[1].kind = "Int") =>
            LET r == get_by_key(t, pk[1].v[1]) IN
            r.ok /\ r.some /\ r.ptr = TuplePointer(0, bs[1], bs[2])
  /\ (last.op = "insert_row" /\ last.valid /\ events = 0) =>
       Observes(last.name, last.row)
  /\ \A t \in DOMAIN tables : \A p \in DOMAIN idxFile[t].pages :
       idxFile[t].pages[p].is_leaf =>
         \A i \in 1..Len(idxFile[t].pages[p].entries) :
           RowAt(t, as_tuple_pointer(idxFile[t].pages[p].entries[i])) # <<>>

\* C4: insert_row of a row whose primary-key value was inserted before, in
\* this process or before a restart, returns an error and leaves the table
\* as it was, its earlier rows readable.
C4_DuplicateKeyRejected ==
  (last.op = "insert_row" /\ last.dup /\ events = 0) =>
    /\ last.res = "err"
    /\ tblFile[last.name] = last.preFile
    /\ scan_table(last.name).ok

\* C5: insert_row of a small row with a primary key not inserted before
\* succeeds, and scan_table then returns as many rows as were inserted.
C5_DistinctKeyInsertsSucceed ==
  (last.op = "insert_row" /\ last.valid /\ ~last.dup /\ events = 0) =>
    /\ last.res = "ok"
    /\ scan_table(last.name).ok
    /\ Len(scan_table(last.name).rows) = Len(okRows[last.name])

\* C6: after a restart without a crash, scan_table of every created table
\* succeeds and returns the rows inserted before, and get_by_key finds each.
C6_RowsSurviveCleanRestart ==
  (last.op = "restart" /\ events = 0) =>
    \A t \in created :
      /\ t \in DOMAIN tables
      /\ scan_table(t) = [ok |-> TRUE, rows |-> okRows[t]]
      /\ \A i \in 1..Len(okRows[t]) : Observes(t, okRows[t][i])

C8_FlipAfterCompleteWrite ==
  [][ /\ (catalog'.active_segment # catalog.active_segment /\ last'.op # "restart") =>
           /\ frame.inactive_seg = 1 - catalog.active_segment
           /\ catFile[frame.inactive_seg] # NoFile
           /\ catFile[frame.inactive_seg] = frame.data
           /\ deserialize(catFile[frame.inactive_seg]).ok
           /\ deserialize(catFile[frame.inactive_seg]).tables = catalog.tables
           /\ catTmp[frame.inactive_seg] = NoFile
      /\ (last'.op = "create_table" /\ last'.res = "err") =>
           catalog'.active_segment = catalog.active_segment
    ]_vars

\* a create_table that returned Ok: the pointer names the slot just written,
\* whose file holds the current, non-empty catalog
C8_Flipped ==
  /\ pc = "idle" /\ last.op = "create_table" /\ last.res = "ok"
  /\ catalog.tables # Empty
  /\ Held(catalog.active_segment) = catalog.tables

\* C9: create_table of a name that is in the tables map returns an error and
\* changes neither the Database in memory (tables, file handles, catalog) nor
\* any file on disk.
C9_DuplicateCreateChangesNothing ==
  [][ (last'.op = "create_table" /\ last'.dup) =>
        (last'.res = "err" /\ UNCHANGED <<memory, disk, pc, frame>>) ]_vars

\* a create_table of an existing name that returned its error
C9_DuplicateRejected ==
  /\ last.op = "create_table" /\ last.dup /\ last.res = "err"
  /\ last.name \in DOMAIN tables

\* C10: after a create_table that began and then returned an error, the name
\* is not in the tables map: get_schema of it reports that there is no such
\* table.
C10_FailedCreateLeavesNoTable ==
  (pc = "idle" /\ last.op = "create_table" /\ last.res = "err" /\ ~last.dup) =>
    (last.name \notin DOMAIN tables /\ ~get_schema(last.name).ok)

\* C11: insert_row of a row whose primary-key value is NULL returns an error
\* and changes nothing: scan_table returns what it returned before, no block
\* is newly marked used in the segment header, and the primary index file is
\* as it was.
C11_NullKeyInsertChangesNothing ==
  [][ \A name \in DOMAIN tables :
        (/\ last'.op = "insert_row"
         /\ last'.name = name
         /\ PkValue(tables[name].schema, last'.row) = <<VNull>>
         /\ events = 0) =>
          /\ last'.res = "err"
          /\ scan_table(name)' = scan_table(name)
          /\ read_segment_header(tblFile[name])' = read_segment_header(tblFile[name])
          /\ idxFile' = idxFile
    ]_vars

\* C12: on a table with no secondary index on its primary-key column, a
\* SELECT with an equality predicate on that column falls back to the primary
\* index: it succeeds exactly when the primary-index lookup of the key does,
\* and it returns the inserted row whose key matches.
C12_SelectByKeyUsesPrimaryIndex ==
  (pc = "idle" /\ events = 0) =>
    \A t \in DOMAIN tables : \A k \in 0..MaxInt :
      LET schema == tables[t].schema
          column == schema[Min({i \in 1..Len(schema) : schema[i].is_primary_key})].name
          has_key(row) == PkValue(schema, row) = <<VInt(k)>>
      IN
      find_secondary_index(t, column).found = <<>> =>
        /\ IndexScan(t, column, VInt(k)).ok = get_by_key(t, k).ok
        /\ IndexScan(t, column, VInt(k)).rows = SelectSeq(okRows[t], has_key)

\* C13: after insert_row of a row with an integer primary key, the pointer
\* get_by_key returns for the key is one that Database.read_block can follow:
\* read_block of its segment and block succeeds, and read_tuple of its slot
\* on the returned block decodes to the inserted row.
C13_ReadBlockFollowsPointer ==
  (last.op = "insert_row" /\ last.valid /\ events = 0) =>
    LET r == get_by_key(last.name, last.key[1].v[1])
        rd == Database_read_block(r.ptr.segment_id, r.ptr.block_id)
        t == read_tuple(rd.block, r.ptr.slot_id)
    IN /\ r.ok /\ r.some
       /\ rd.ok
       /\ t.some
       /\ DecodeRow(t.bytes).ok
       /\ DecodeRow(t.bytes).row = last.row

\* C14: range_scan_index is delegated to the range_scan of the B+-tree
\* primary index: it returns what that range scan returns over the index
\* file, and after insert_row of a row with an integer key k the scan of
\* [k, k] returns exactly one pointer, which addresses that row.
C14_RangeScanDelegatesToBTree ==
  (pc = "idle" /\ events = 0) =>
    \A t \in DOMAIN tables : \A lo \in 0..MaxInt, hi \in 0..MaxInt :
      LET r == range_scan_index(t, lo, hi)
          b == btree_range_scan(idxFile[t], tables[t].primary_index[1].index.root_page_id,
                                lo, hi)
      IN /\ r.ok = b.ok
         /\ r.ptrs = [i \in 1..Len(b.results) |-> b.results[i][2]]
         /\ (last.op = "insert_row" /\ last.valid /\ last.name = t
               /\ lo = last.key[1].v[1] /\ hi = lo) =>
              (Len(r.ptrs) = 1 /\ RowAt(t, r.ptrs[1]) = <<last.row>>)

\* C15: once a table has a secondary index on a column, insert_row of a row
\* with an integer primary key also enters the row under the key of that
\* column into the secondary index: search_secondary_index of that key
\* returns a pointer to the new row.
C15_InsertMaintainsSecondaryIndex ==
  (last.op = "insert_row" /\ last.valid /\ events = 0) =>
    \A i \in 1..Len(tables[last.name].secondary_indexes) :
      LET schema == tables[last.name].schema
          column == tables[last.name].secondary_indexes[i].column
          c == Min({j \in 1..Len(schema) : schema[j].name = column})
          r == search_secondary_index(last.name, column, last.row[c].v[1])
      IN r.ok /\ r.some /\ RowAt(last.name, r.ptr) = <<last.row>>

\* C16: directly after create_secondary_index returned Ok, the new index
\* holds the rows already in the table: search_secondary_index of a key
\* succeeds, returns a pointer to a stored row whose indexed column has that
\* key when there is such a row, and None when there is none.
C16_CreateIndexPopulates ==
  (last.op = "create_secondary_index" /\ last.res = "ok") =>
    \A k \in 0..MaxInt :
      LET schema == tables[last.name].schema
          c == Min({j \in 1..Len(schema) : schema[j].name = "v"})
          stored == {RowAt(last.name, TuplePointer(0, bs[1], bs[2])) :
                       bs \in StoredSlots(last.name)}
          r == search_secondary_index(last.name, "v", k)
      IN /\ r.ok
         /\ r.some <=> (\E row \in stored : row[1][c] = VInt(k))
         /\ r.some => (RowAt(last.name, r.ptr) \in stored
                         /\ RowAt(last.name, r.ptr)[1][c] = VInt(k))

\* C17: a secondary index survives a restart: when a new Database is opened
\* after create_secondary_index returned Ok and the table is in it, the index
\* is still registered for the table and the column.
C17_SecondaryIndexSurvivesRestart ==
  (/\ last.op = "restart" /\ last.after = "create_secondary_index"
   /\ last.name \in DOMAIN tables) =>
    find_secondary_index(last.name, "v").found # <<>>

\* C18: insert_row takes the primary-index key from the column the schema
\* marks as primary key: on a table whose primary-key column is not the first
\* one, insert_row of a row with an integer in that column succeeds whatever
\* the first column holds, and get_by_key of that integer finds the row.
C18_KeyFromPrimaryKeyColumn ==
  (/\ last.op = "insert_row" /\ last.valid /\ events = 0
   /\ ~tables[last.name].schema[1].is_primary_key) =>
    LET r == get_by_key(last.name, last.key[1].v[1]) IN
    /\ last.res = "ok"
    /\ r.ok /\ r.some
    /\ RowAt(last.name, r.ptr) = <<last.row>>

\* C19: after any sequence of append_tuple calls on a fresh block, successful
\* or not, free_start = 16 + 4 * slot_count, free_start <= free_end <=
\* BLOCK_SIZE, and BLOCK_SIZE - free_end is the sum of the lengths of the
\* payloads whose append succeeded.
C19_BlockHeaderInvariant ==
  LET RECURSIVE Stored(_)
      Stored(i) == IF i = 0 THEN 0
                   ELSE Stored(i - 1)
                          + (IF appended[i].some THEN Len(Payloads[appended[i].p]) ELSE 0)
  IN /\ blk.free_start = BLOCK_HEADER_SIZE + SLOT_ENTRY_SIZE * blk.slot_count
     /\ blk.free_start <= blk.free_end
     /\ blk.free_end <= BLOCK_SIZE
     /\ BLOCK_SIZE - blk.free_end = Stored(Len(appended))

\* a block on which appends succeeded until it was full and a further append
\* was refused
C19_AppendRefused ==
  /\ Len(appended) >= 3
  /\ appended[1].some /\ appended[2].some
  /\ ~appended[Len(appended)].some
  /\ blk.slot_count >= 2
  /\ free_space(blk) < SLOT_ENTRY_SIZE + 1

\* C20: when the byte strings appended to a fresh block, empty ones included,
\* have a total size plus 4 per string of at most BLOCK_SIZE - 16, every
\* append succeeds, the i-th with slot id i - 1, and read_tuple of each slot
\* returns the bytes of the string appended to it.
C20_AppendReadRoundTrip ==
  LET k == Len(appended)
      RECURSIVE Total(_)
      Total(i) == IF i = 0 THEN 0 ELSE Total(i - 1) + Len(Payloads[appended[i].p])
  IN (Total(k) + SLOT_ENTRY_SIZE * k <= BLOCK_SIZE - BLOCK_HEADER_SIZE) =>
       \A i \in 1..k :
         /\ appended[i].some
         /\ appended[i].slot_id = i - 1
         /\ read_tuple(blk, i - 1) = [some |-> TRUE, bytes |-> Payloads[appended[i].p]]

\* C21: in an initialized segment, after any sequence of allocate_block and
\* free_block calls, a free_block of a block that is already free included,
\* blocks_used equals the number of cleared bits among the 31 block positions
\* of block_free_bitmap.
C21_BlocksUsedCountsClearedBits ==
  LET h == read_segment_header(seg.file) IN
  h.ok => h.hdr.blocks_used
            = Cardinality((0..(BLOCKS_PER_UNCOMPRESSED_SEGMENT - 1)) \ h.hdr.block_free_bitmap)

\* C29: allocate_block on an initialized segment returns the lowest free block
\* from block 1 on in segment 0 and from block 0 on in any other segment, a
\* block whose bit was set, and the header written differs from the one read
\* in that bit and in blocks_used, one higher; when no block of the range is
\* free it returns None and the header stays as it was.
C29_AllocateLowestFree ==
  [][LET h == read_segment_header(seg.file)
         segment_id == seg.next_segment_id - 1
         range == (IF segment_id = 0 THEN 1 ELSE 0)..(BLOCKS_PER_UNCOMPRESSED_SEGMENT - 1)
         b == segLast'.block_id
     IN (segLast'.op = "allocate_block" /\ h.ok) =>
          /\ segLast'.ok
          /\ IF \E c \in range : c \in h.hdr.block_free_bitmap
             THEN /\ segLast'.some
                  /\ b \in range
                  /\ b \in h.hdr.block_free_bitmap
                  /\ \A c \in range : c < b => c \notin h.hdr.block_free_bitmap
                  /\ seg'.file.hdr =
                       << [h.hdr EXCEPT !.block_free_bitmap = @ \ {b},
                                        !.blocks_used = @ + 1] >>
             ELSE /\ ~segLast'.some
                  /\ seg' = seg]_vars

\* allocate_block has just found segment 0 full, its block 0 still free
C29_SegmentFull ==
  /\ segLast.op = "allocate_block"
  /\ segLast.ok /\ ~segLast.some
  /\ seg.next_segment_id = 1
  /\ seg.file.hdr[1].block_free_bitmap \cap (0..(BLOCKS_PER_UNCOMPRESSED_SEGMENT - 1)) = {0}

\* C22: on a page of at most 252 distinct keys, each put by insert_at at the
\* position binary_search returned for it, binary_search(k) returns (true, i)
\* exactly when entry i has key k, and otherwise (false, p) with p the one
\* position at which k keeps the entries sorted.
C22_BinarySearchFindsPosition ==
  LET page == tree.file.pages[PageId(0)]
      n == num_keys(page)
  IN tree.handle.next_page_id = 1 =>
       /\ n <= MAX_ENTRIES
       /\ \A i \in 1..(n - 1) : page.entries[i].key < page.entries[i + 1].key
       /\ \A k \in 0..(SeqKey(MaxKeys) + 1) :
            LET bs == binary_search(page, k) IN
            /\ bs[2] \in 0..n
            /\ IF bs[1]
               THEN bs[2] < n /\ page.entries[bs[2] + 1].key = k
               ELSE /\ bs[2] > 0 => page.entries[bs[2]].key < k
                    /\ bs[2] < n => page.entries[bs[2] + 1].key > k

\* a full page whose last entry went in amid the others
C22_FullPage ==
  /\ tree.handle.next_page_id = 1
  /\ num_keys(tree.file.pages[PageId(0)]) = MAX_ENTRIES
  /\ treeLog.last.ok /\ ~treeLog.last.existed
  /\ \E i \in 2..(MAX_ENTRIES - 1) :
       tree.file.pages[PageId(0)].entries[i].key = treeLog.last.key

\* C23: an insert of a key the tree already holds leaves one entry for that
\* key in the tree, carrying the pointer just inserted, and changes neither
\* the number of keys of any page nor any other entry.
C23_UpsertReplacesInPlace ==
  LET lst == treeLog.last
      pages == tree.file.pages
  IN (lst.ok /\ lst.existed) =>
       /\ DOMAIN pages = DOMAIN lst.pre
       /\ Cardinality({ <<pg, i>> \in (DOMAIN pages) \X (1..MAX_ENTRIES) :
                          i <= num_keys(pages[pg]) /\ pages[pg].entries[i].key = lst.key }) = 1
       /\ \A pg \in DOMAIN pages :
            /\ num_keys(pages[pg]) = num_keys(lst.pre[pg])
            /\ \A i \in 1..num_keys(pages[pg]) :
                 IF pages[pg].entries[i].key = lst.key
                 THEN as_tuple_pointer(pages[pg].entries[i]) = lst.ptr
                 ELSE pages[pg].entries[i] = lst.pre[pg].entries[i]

\* C24: of the inserts into an empty tree, the one bringing the 253rd distinct
\* key is the first to return a split; its promoted_key is the key at index
\* 126 of the 253 in sorted order, the root page then holds the 126 entries
\* below it and the right sibling the other 127, both in key order and with
\* the pointers inserted.
C24_SplitAtMidpoint ==
  LET lst == treeLog.last
      ins == treeLog.inserted
      rank(k) == Cardinality({j \in DOMAIN ins : j < k})
      mid == (MAX_ENTRIES + 1) \div 2
      left == tree.file.pages[PageId(0)].entries
      right == tree.file.pages[PageId(1)].entries
  IN (lst.ok /\ DOMAIN lst.pre = {PageId(0)}) =>
       /\ lst.split <=> (~lst.existed /\ Cardinality(DOMAIN ins) = MAX_ENTRIES + 1)
       /\ lst.split =>
            /\ lst.promoted_key \in DOMAIN ins
            /\ rank(lst.promoted_key) = mid
            /\ Len(left) = mid
            /\ Len(right) = MAX_ENTRIES + 1 - mid
            /\ \A i \in 1..Len(left) :
                 /\ left[i].key \in DOMAIN ins
                 /\ rank(left[i].key) = i - 1
                 /\ as_tuple_pointer(left[i]) = ins[left[i].key]
            /\ \A i \in 1..Len(right) :
                 /\ right[i].key \in DOMAIN ins
                 /\ rank(right[i].key) = mid + i - 1
                 /\ as_tuple_pointer(right[i]) = ins[right[i].key]

\* the 253rd distinct key, smaller than all others, has split the root
C24_SplitReturned ==
  /\ treeLog.last.ok /\ treeLog.last.split
  /\ DOMAIN treeLog.last.pre = {PageId(0)}
  /\ treeLog.last.key = 1
  /\ Cardinality(DOMAIN treeLog.inserted) = MAX_ENTRIES + 1

\* C25: once an insert has returned a split, a search of the tree for any key
\* inserted so far, those moved to the right sibling included, returns the
\* pointer last inserted for that key.
C25_SearchAfterSplit ==
  tree.handle.next_page_id > 1 =>
    \A k \in DOMAIN treeLog.inserted :
      btree_search(tree.file, PageId(0), k)
        = [ok |-> TRUE, some |-> TRUE, ptr |-> treeLog.inserted[k]]

C27_RowCodecRoundTrip ==
  /\ codec.decoded.ok <=> codec.bytes # <<>>
  /\ codec.bytes # <<>> =>
       /\ Len(codec.decoded.row) = Len(codec.row)
       /\ \A i \in 1..Len(codec.row) :
            codec.decoded.row[i] = IF codec.row[i].kind = "Extension" THEN VNull
                                   ELSE codec.row[i]
       /\ codec.decoded.next = Len(codec.bytes) + 1

\* a row of a negative integer and an Extension value has gone through
C27_MixedRow ==
  /\ codec.bytes # <<>>
  /\ Len(codec.row) = 2
  /\ codec.row[1] = VInt(-2)
  /\ codec.row[2].kind = "Extension"
  /\ codec.decoded.row = <<VInt(-2), VNull>>

\* C28: an insert into an index excludes every other access to that index.
\* No two threads are between taking the guard and dropping it at once, so
\* no two inserts overlap their read-page, modify and write-page steps; the
\* page a thread has read is still the page in the file until that thread
\* itself writes it, and the page in the file after its write is the page it
\* read with its own entry put in, so a search sees the page of before an
\* insert or of after it.
C28_IndexAccessExclusive ==
  /\ \A t, u \in 1..MaxThreads :
       latch.thr[t].pc # "idle" /\ latch.thr[u].pc # "idle" => t = u
  /\ \A t \in 1..MaxThreads :
       /\ latch.thr[t].pc # "idle" => latch.holder = t
       /\ latch.thr[t].pc \in {"read", "written"} =>
            read_page(latch.file, PageId(0)).page = latch.thr[t].page
       /\ latch.thr[t].pc = "written" =>
            LET bs == binary_search(latch.thr[t].page, latch.thr[t].key) IN
            /\ bs[1]
            /\ as_tuple_pointer(latch.thr[t].page.entries[bs[2] + 1]) = TuplePointer(0, 1, t)

\* a thread has written its entry to a page that held the other thread's,
\* while the other thread waits for nothing: it is idle
C28_SecondInsertWritten ==
  /\ latch.thr[2].pc = "written"
  /\ latch.thr[1].pc = "idle"
  /\ num_keys(latch.thr[2].page) = 2
  /\ \E i \in 1..2 : as_tuple_pointer(latch.thr[2].page.entries[i]) = TuplePointer(0, 1, 1)

\* C30: the block insert_row has just allocated is an empty slotted page
\* when the tuple is appended. The first insert_row into a freshly created
\* table, of a row of the schema's length with an integer key, returns Ok,
\* and every block the segment header of a table marks used can be read and
\* holds a well-formed page: free_start = 16 + 4 * slot_count and
\* free_start <= free_end <= 65536.
C30_AllocatedBlockIsEmptyPage ==
  /\ ( /\ last.op = "insert_row"
       /\ last.valid
       /\ events = 0
       /\ last.name \in DOMAIN tables
       /\ Len(last.row) = Len(tables[last.name].schema)
       /\ last.preFile.hdr # <<>>
       /\ last.preFile.hdr[1].blocks_used = 0 ) => last.res = "ok"
  /\ \A n \in Names :
       tblFile[n].hdr # <<>> =>
         \A block_id \in 0..(BLOCKS_PER_UNCOMPRESSED_SEGMENT - 1) :
           ~is_block_free(tblFile[n].hdr[1], block_id) =>
             LET rd == read_block(tblFile[n], block_id) IN
             /\ rd.ok
             /\ rd.block.free_start
                  = BLOCK_HEADER_SIZE + SLOT_ENTRY_SIZE * rd.block.slot_count
             /\ rd.block.free_start <= rd.block.free_end
             /\ rd.block.free_end <= BLOCK_SIZE

C35_LeafPagesSorted ==
  \A pg \in DOMAIN tree.file.pages :
    LET page == tree.file.pages[pg] IN
    /\ validate(page)
    /\ page.is_leaf
    /\ num_keys(page) <= MAX_ENTRIES
    /\ \A i \in 1..(num_keys(page) - 1) : page.entries[i].key < page.entries[i + 1].key

\* after a split, a new key has gone into the root page amid its entries
C35_InsertAfterSplit ==
  /\ DOMAIN treeLog.last.pre = {PageId(0), PageId(1)}
  /\ treeLog.last.ok /\ ~treeLog.last.existed
  /\ num_keys(tree.file.pages[PageId(1)]) = MAX_ENTRIES + 1 - (MAX_ENTRIES + 1) \div 2
  /\ \E i \in 2..(num_keys(tree.file.pages[PageId(0)]) - 1) :
       tree.file.pages[PageId(0)].entries[i].key = treeLog.last.key

\* C36: after any sequence of append_tuple calls on a fresh block, every
\* slot below slot_count that is not the empty marker (0, 0) lies in the
\* heap: free_end <= offset and offset + length <= BLOCK_SIZE; the byte
\* ranges of two different slots do not overlap; and the slot of every
\* append that returned a slot id is not the empty marker.
C36_SlotsWithinHeap ==
  LET used == {i \in 0..(blk.slot_count - 1) :
                 ~(slot(blk, i).offset = 0 /\ slot(blk, i).length = 0)}
  IN /\ \A i \in used :
          /\ blk.free_end <= slot(blk, i).offset
          /\ slot(blk, i).offset + slot(blk, i).length <= BLOCK_SIZE
     /\ \A i, j \in used :
          i # j =>
            \/ slot(blk, i).offset + slot(blk, i).length <= slot(blk, j).offset
            \/ slot(blk, j).offset + slot(blk, j).length <= slot(blk, i).offset
     /\ \A k \in 1..Len(appended) :
          appended[k].some =>
            ~(slot(blk, appended[k].slot_id).offset = 0
                /\ slot(blk, appended[k].slot_id).length = 0)

C31_PageIdsNeverRepeat ==
  \A i, j \in 1..Len(pgs.allocated) : i < j => pgs.allocated[i] < pgs.allocated[j]

\* C32: insert_row calls of concurrent tasks on one table run one after the
\* other (the caller holds the write guard of the Database over each), so
\* the header and block updates of two calls never interleave. Of two such
\* calls with valid rows of different keys, the second finds the header as
\* the first left it and loses none of its updates: no block marked used
\* becomes free again and blocks_used counts the cleared bits; and when both
\* have returned, both have returned Ok and scan_table holds both rows.
C32_SerializedInsertsBothStored ==
  [][ \A name \in Names :
        ( /\ last.op = "insert_row" /\ last.name = name /\ last.valid
          /\ last'.op = "insert_row" /\ last'.name = name /\ last'.valid
          /\ ~last'.dup
          /\ events' = 0
          /\ name \in DOMAIN tables
          /\ Len(last.row) = Len(tables[name].schema)
          /\ Len(last'.row) = Len(tables[name].schema)
          /\ tblFile'[name].hdr # <<>> ) =>
          /\ last'.preFile = tblFile[name]
          /\ tblFile'[name].hdr[1].block_free_bitmap
               \subseteq tblFile[name].hdr[1].block_free_bitmap
          /\ tblFile[name].hdr[1].block_free_bitmap
               \subseteq last.preFile.hdr[1].block_free_bitmap
          /\ tblFile'[name].hdr[1].blocks_used
               = Cardinality((0..31) \ tblFile'[name].hdr[1].block_free_bitmap)
          /\ last.res = "ok" /\ last'.res = "ok"
          /\ scan_table(name)'.ok
          /\ \E i, j \in 1..Len(scan_table(name)'.rows) :
               /\ i < j
               /\ scan_table(name)'.rows[i] = last.row
               /\ scan_table(name)'.rows[j] = last'.row
    ]_vars

\* C39: entries appended to a WAL file are read back intact. append returns
\* 0 for the first entry and for each further one the previous offset plus
\* the size of the previous header and payload; read_at of each offset
\* returned yields an entry of the type and payload appended there; and an
\* iterator from offset 0 that has come to its end has yielded the appended
\* entries in append order and ended with None.
C39_WalRoundTrip ==
  /\ \A k \in 1..Len(wlog.appended) :
       /\ wlog.appended[k].offset
            = IF k = 1 THEN 0
              ELSE wlog.appended[k - 1].offset + 56 + Len(wlog.appended[k - 1].payload)
       /\ wal_read_at(wlog.wal, wlog.appended[k].offset)
            = [ok |-> TRUE, some |-> TRUE, entry_type |-> wlog.appended[k].entry_type,
               payload |-> wlog.appended[k].payload]
  /\ (wlog.iter # <<>> /\ wlog.iter[1].ended # "no") =>
       /\ wlog.iter[1].ended = "none"
       /\ wlog.iter[1].yielded
            = [k \in 1..Len(wlog.appended) |->
                 [entry_type |-> wlog.appended[k].entry_type,
                  payload |-> wlog.appended[k].payload]]

\* C38: the threads of an Executor never deadlock. Whenever some thread is
\* inside a statement, some thread inside a statement is at a call that
\* returns; every lock a thread calls for comes, in the order Database lock,
\* table-metadata lock, index mutex, file-counter mutex, after every lock it
\* has a guard of, so none is taken twice; and a thread outside a statement
\* has no guard.
C38_NoDeadlock ==
  LET rank(l) == CASE l = "database" -> 1
                   [] l = "metadata" -> 2
                   [] l \in {"index", "secondary"} -> 3
                   [] l = "counter" -> 4
      busy == {t \in 1..MaxThreads : tasks[t].pc > 0}
      ins(t) == Program(tasks[t].op)[tasks[t].pc]
  IN /\ busy # {} => \E t \in busy : lock_free(t, ins(t))
     /\ \A t \in busy :
          ins(t).mode # "unlock" => \A g \in tasks[t].held : rank(g[1]) < rank(ins(t).lock)
     /\ \A t \in 1..MaxThreads : tasks[t].pc = 0 => tasks[t].held = {}

\* a thread is in its call for the Database write lock, which does not
\* return while another has the Database read lock, the metadata read lock
\* and the index Mutex
C38_WriterWaitsForReader ==
  \E t, u \in 1..MaxThreads :
    /\ tasks[t].held = {<<"database", "read">>, <<"metadata", "read">>, <<"index", "lock">>}
    /\ tasks[u].pc > 0
    /\ Program(tasks[u].op)[tasks[u].pc] = [lock |-> "database", mode |-> "write"]
    /\ ~lock_free(u, Program(tasks[u].op)[tasks[u].pc])

====
